---- MODULE Spec2Model ----
(***************************************************************************)
(* Model of the Redis-Streams messaging engine of nest-template-           *)
(* microservice: MessageProducerService.publish, and                        *)
(* MessageConsumerService subscribe / consumeMessages /                     *)
(* processPendingMessages / readAndProcessNewMessages / processMessage /    *)
(* moveToDeadLetterQueue / onModuleDestroy, together with the part of the   *)
(* Redis server the code talks to (one stream, its consumer groups with     *)
(* their pending-entries lists, the '<stream>:dlq' stream and the keys of   *)
(* the idempotency ledger).                                                 *)
(*                                                                          *)
(* Every Redis command is one atomic step; every `await` is a point where   *)
(* the other loops and processes may run.  Time is abstract: Tick lets     *)
(* TickMs pass, which adds TickMs to the idle time of every pending entry,  *)
(* so that entries delivered at different times become claimable at         *)
(* different times; Expire removes a ledger key whose ttl has run out.      *)
(***************************************************************************)
EXTENDS Integers, Sequences, FiniteSets, TLC

\* ------------------------------------------------------------ bounds
\* Entries appended to the stream, log-service faults, ledger records that
\* expire and process restarts, per scenario family.
MaxEntries == 2
MaxFaults == 1
MaxExpiries == 1
MaxEntriesOrder == 3
MaxEntriesPair == 2
MaxEntriesGroups == 1
MaxFaultsPair == 1
MaxRestarts == 1
\* Producer scenarios: entries on the stream, payloads per batch, faults.
MaxEntriesProd == 3
MaxBatch == 2
MaxFaultsProd == 2
\* Service scenarios: task ids, order ids, events published, faults.
MaxTasks == 2
MaxOrders == 1
MaxEntriesSvc == 3
MaxFaultsSvc == 1
\* Subscription life-cycle scenarios: entries published, faults.
MaxEntriesLife == 1
MaxFaultsLife == 1
\* Shutdown scenarios: entries published, faults.
MaxEntriesDrain == 2
MaxFaultsDrain == 2
\* Decoding scenarios: entries on the stream, faults.
MaxEntriesDecode == 2
MaxFaultsDecode == 1
\* Granularity of the abstract clock that ages pending entries.
TickMs == 30000

\* ------------------------------------------------- program constants
maxRetries == 3
MinIdleMs == 60000
PendingCount == 10
ReadCount == 10
BackoffBaseMs == 1000
ErrorPauseMs == 5000

StreamName == "tasks:created"
DefaultKeyField == "idempotencyKey"

Loops == {"L1", "L2"}
Insts == {"i1", "i2"}
Groups == {"gA", "gB"}

\* Redis entry ids are strings "<ms>-<seq>", ordered by arrival; entry number
\* n of the stream has the id IdStr[n].
IdStr == <<"1-0", "2-0", "3-0", "4-0", "5-0", "6-0", "7-0", "8-0", "9-0">>

NoKey == <<>>

\* --------------------------------------------------- pure functions
Min(a, b) == IF a <= b THEN a ELSE b

\* Array.prototype.indexOf over the flat field list, 1-based; 0 when absent
\* (JavaScript's -1).
IndexOf(fields, x) ==
  IF \E i \in 1..Len(fields) : fields[i] = x
  THEN CHOOSE i \in 1..Len(fields) :
         fields[i] = x /\ \A j \in 1..(i - 1) : fields[j] # x
  ELSE 0

\* fields.indexOf('data') === -1 || dataIndex + 1 >= fields.length
HasData(fields) ==
  LET i == IndexOf(fields, "data") IN i # 0 /\ i + 1 <= Len(fields)

DataOf(fields) == fields[IndexOf(fields, "data") + 1]

ValidatorAcceptsAll(text) == TRUE

\* JSON.parse throws on text that is not JSON; "{" stands for such a text.
JsonParses(text) == text # "{"

\* The subscriber's type guard (isTaskEvent); "null" stands for a JSON value
\* it rejects.
ValidatorAccepts(text) == text # "null"

\* String(n) for the small numbers used as schema versions.
DigitStr == <<"0", "1", "2", "3", "4", "5", "6", "7", "8", "9">>
String(n) == DigitStr[n + 1]

\* Publish options are records that hold the options passed; an option that
\* was not passed (undefined) is not in the record's domain.
NoOptions == [o \in {} |-> ""]

\* options.<name> is a non-empty string (JavaScript truthiness of a string).
Truthy(options, name) == name \in DOMAIN options /\ options[name] # ""

\* buildMessageFields: 'data', JSON, 'timestamp', now; then idempotencyKey
\* when truthy, schemaVersion (as a string) when not undefined, eventType
\* when truthy, source when truthy.
buildMessageFields(data, options) ==
  <<"data", data, "timestamp", "t">>
    \o (IF Truthy(options, "idempotencyKey")
        THEN <<"idempotencyKey", options.idempotencyKey>> ELSE <<>>)
    \o (IF "schemaVersion" \in DOMAIN options
        THEN <<"schemaVersion", String(options.schemaVersion)>> ELSE <<>>)
    \o (IF Truthy(options, "eventType")
        THEN <<"eventType", options.eventType>> ELSE <<>>)
    \o (IF Truthy(options, "source")
        THEN <<"source", options.source>> ELSE <<>>)

\* The options TasksService.publishEvent passes to publish.
TaskEventOptions(eventId, eventType, serviceName) ==
  [idempotencyKey |-> eventId, schemaVersion |-> 1, eventType |-> eventType,
   source |-> serviceName]

\* The options of the publish calls that fill the stream of a scenario: those
\* of TasksService.publishEvent for a 'created' event with the given event
\* id, or none (publish(stream, data), as OrdersService.create calls it).
EntryOptions(k) ==
  IF k = "" THEN NoOptions ELSE TaskEventOptions(k, "created", "svc")

getIdempotencyKeyIdOnly(idem, keyField, messageId, fields) ==
  IF ~idem THEN NoKey ELSE <<"idempotency", StreamName, messageId>>

\* getIdempotencyKey: null without idempotency options; otherwise
\* `idempotency:${stream}:${suffix}` with the value of the key field as the
\* suffix, or the entry id when the field is absent or empty.
getIdempotencyKey(idem, keyField, messageId, fields) ==
  IF ~idem THEN NoKey
  ELSE LET i == IndexOf(fields, keyField)
           hasRaw == i # 0 /\ i + 1 <= Len(fields)
           suffix == IF hasRaw /\ fields[i + 1] # "" THEN fields[i + 1] ELSE messageId
       IN <<"idempotency", StreamName, suffix>>

BackoffDelayLinear(retryCount) == (retryCount + 1) * BackoffBaseMs

BackoffDelayQuadratic(retryCount) == (retryCount + 1) * (retryCount + 1) * 100

\* Math.pow(2, retryCount) * 1000
BackoffDelay(retryCount) == (2 ^ retryCount) * BackoffBaseMs

\* ------------------------------------------------------------ state
VARIABLES
  cfg,            \* the scenario: who subscribes how (never changes)
  stream,         \* the stream: entry n is the field list stream[n]
  dlq,            \* the '<stream>:dlq' stream
  groups,         \* consumer groups that exist on the stream
  lastDelivered,  \* per group: number of the last entry delivered by '>'
  pel,            \* per group: pending entries, id -> [owner, idle, count]
  ledger,         \* idempotency keys present in Redis
  faults,         \* log-service faults so far
  up,             \* per instance: the process runs
  isShuttingDown, \* per instance: MessageConsumerService.isShuttingDown
  consumers,      \* per instance: keys of MessageConsumerService.consumers
  restarts,       \* process restarts so far
  clock,          \* Date.now(): the millisecond the latest subscribe call read
  loop,           \* per loop: the state of its consumeMessages call
  invoked,        \* history: <<group, entry, delivery>> the handler was called for
  skipped,        \* history: <<group, entry, delivery>> acknowledged as duplicates
  marked,         \* history: <<group, key>> ledger records written
  expired,        \* history: ledger keys whose ttl ran out
  escaped,        \* history: <<group, entry, delivery>> whose processing threw
  handledBy,      \* history: <<group, entry, consumer>> the handler was called by
  subErrors,      \* history: loops whose subscribe call threw
  pubResult,      \* what the last publish / publishBatch call gave its caller
  svcResult,      \* per call slot: the TasksService / OrdersService call in it
  store,          \* the primary stores of the services (records by id, last task id)
  otherStreams    \* entries appended to streams other than StreamName

redisVars == <<stream, dlq, groups, lastDelivered, pel, ledger, faults>>
procVars == <<up, isShuttingDown, consumers, restarts, clock>>
histVars == <<invoked, skipped, marked, expired, escaped, handledBy, subErrors>>
apiVars == <<pubResult, svcResult, store, otherStreams>>
vars == <<cfg, stream, dlq, groups, lastDelivered, pel, ledger, faults,
          up, isShuttingDown, consumers, restarts, clock, loop,
          invoked, skipped, marked, expired, escaped, handledBy, subErrors,
          pubResult, svcResult, store, otherStreams>>

InstOf(l) == cfg.inst[l]
GroupOf(l) == cfg.group[l]

\* `${stream}:${consumerGroup}:${consumer}`
ConsumerKey(g, name) == <<StreamName, g, name>>

\* A loop that has not been started, and the per-entry bookkeeping of a loop
\* that is not processing an entry.
NoProc ==
  [cur |-> 0, origin |-> "", retryCount |-> 0, ikey |-> NoKey, err |-> <<>>,
   calls |-> 0, hfails |-> 0, pfault |-> FALSE, dlqIdx |-> 0, dlqFail |-> FALSE,
   outcome |-> "", dcount |-> 0, delays |-> <<>>, reads |-> 0,
   decodes |-> 0, validations |-> 0]

IdleLoop ==
  [pc |-> "none", name |-> <<>>, pendq |-> <<>>, batch |-> <<>>,
   pauses |-> <<>>] @@ NoProc

\* The outcomes a Redis command may have: it fails only while the fault
\* budget of the scenario lasts.
Outcomes == IF faults < cfg.maxFaults THEN {TRUE, FALSE} ELSE {TRUE}

Spend(ok) == faults' = IF ok THEN faults ELSE faults + 1

\* Entries of group g pending for consumer `name`, oldest first (XPENDING
\* stream group - + 10 consumer).
RECURSIVE SortedSeq(_)
SortedSeq(S) ==
  IF S = {} THEN <<>>
  ELSE LET m == CHOOSE x \in S : \A y \in S : x <= y
       IN <<m>> \o SortedSeq(S \ {m})

FirstN(s, n) == SubSeq(s, 1, Min(n, Len(s)))

xpendingAnyConsumer(g, name) ==
  FirstN(SortedSeq(DOMAIN pel[g]), PendingCount)

xpending(g, name) ==
  FirstN(SortedSeq({id \in DOMAIN pel[g] : pel[g][id].owner = name}), PendingCount)

PelWithout(g, id) == [x \in (DOMAIN pel[g]) \ {id} |-> pel[g][x]]

\* XACK stream group id
xack(g, id) == pel' = [pel EXCEPT ![g] = PelWithout(g, id)]

Acked(g, id) == id <= lastDelivered[g] /\ id \notin DOMAIN pel[g]

DeadLettered(id) ==
  \E j \in 1..Len(dlq) : dlq[j].originalMessageId = IdStr[id]


\* --------------------------------------------------------- scenarios
\* A scenario fixes who subscribes and how: the instance and group of each
\* loop, the consumerName argument ("" = omitted, so the default name is
\* used), the options of each group's subscribers, what is published to
\* the stream, which processes may be shut down, and the bounds.
Scenario(loops, inst, group, cname, idem, validate, payloads, keys, mayStop, maxE, maxF, maxR, maxX) ==
  [loops |-> loops, inst |-> inst, group |-> group, cname |-> cname,
   service |-> [i \in Insts |-> "svc"],
   idem |-> idem, validate |-> validate,
   keyField |-> [g \in Groups |-> DefaultKeyField],
   payloads |-> payloads, keys |-> keys,
   mayStop |-> mayStop,
   maxEntries |-> maxE, maxFaults |-> maxF, maxRestarts |-> maxR,
   maxExpiries |-> maxX]

\* No call has returned yet.
NoResult ==
  [op |-> "none", args |-> <<>>, xadds |-> 0, failed |-> {}, threw |-> FALSE,
   ids |-> <<>>, error |-> <<>>]

\* The slots of the service calls in progress.
Calls == {"A", "B"}

\* No service call has been made; the record of a call that returned none.
NoRecord == [id |-> 0]
NoCall ==
  [op |-> "none", phase |-> "returned", args |-> [id |-> 0, status |-> ""],
   read |-> NoRecord, wrote |-> FALSE, published |-> FALSE, pubThrew |-> FALSE,
   threw |-> FALSE, error |-> "", record |-> NoRecord, eventType |-> ""]

InitState(c) ==
  /\ cfg = c
  /\ stream = <<>>
  /\ dlq = <<>>
  /\ groups = {}
  /\ lastDelivered = [g \in Groups |-> 0]
  /\ pel = [g \in Groups |-> <<>>]
  /\ ledger = {}
  /\ faults = 0
  /\ up = [i \in Insts |-> TRUE]
  /\ isShuttingDown = [i \in Insts |-> FALSE]
  /\ consumers = [i \in Insts |-> {}]
  /\ restarts = 0
  /\ clock = 1
  /\ loop = [l \in Loops |-> IdleLoop]
  /\ invoked = {}
  /\ skipped = {}
  /\ marked = {}
  /\ expired = {}
  /\ escaped = {}
  /\ handledBy = {}
  /\ subErrors = {}
  /\ pubResult = NoResult
  /\ svcResult = [s \in Calls |-> NoCall]
  /\ store = [tasks |-> <<>>, orders |-> <<>>, taskSeq |-> 0]
  /\ otherStreams = <<>>

\* ------------------------------------------------------ the producer
\* MessageProducerService.publish when the XADD succeeds: XADD stream MAXLEN ~
\* 10000 * ...fields, and the entry id is returned.
Publish(data, options) ==
  /\ Len(stream) < cfg.maxEntries
  /\ stream' = Append(stream, buildMessageFields(data, options))
  /\ pubResult' = [op |-> "publish", args |-> <<data>>, xadds |-> 1,
                   failed |-> {}, threw |-> FALSE,
                   ids |-> <<IdStr[Len(stream) + 1]>>, error |-> <<>>]
  /\ UNCHANGED <<cfg, dlq, groups, lastDelivered, pel, ledger, faults, loop>>
  /\ UNCHANGED procVars
  /\ UNCHANGED histVars
  /\ UNCHANGED <<svcResult, store, otherStreams>>

PublishRetries(data, options) ==
  /\ faults < cfg.maxFaults
  /\ Len(stream) < cfg.maxEntries
  /\ faults' = faults + 1
  /\ stream' = Append(stream, buildMessageFields(data, options))
  /\ pubResult' = [op |-> "publish", args |-> <<data>>, xadds |-> 2,
                   failed |-> {1}, threw |-> FALSE,
                   ids |-> <<IdStr[Len(stream) + 1]>>, error |-> <<>>]
  /\ UNCHANGED <<cfg, dlq, groups, lastDelivered, pel, ledger, loop>>
  /\ UNCHANGED procVars
  /\ UNCHANGED histVars
  /\ UNCHANGED <<svcResult, store, otherStreams>>

\* MessageProducerService.publish when the XADD is rejected: the catch block
\* logs and rethrows.
PublishFails(data, options) ==
  /\ faults < cfg.maxFaults
  /\ faults' = faults + 1
  /\ pubResult' = [op |-> "publish", args |-> <<data>>, xadds |-> 1,
                   failed |-> {1}, threw |-> TRUE,
                   ids |-> <<>>, error |-> <<"xadd", 1>>]
  /\ UNCHANGED <<cfg, stream, dlq, groups, lastDelivered, pel, ledger, loop>>
  /\ UNCHANGED procVars
  /\ UNCHANGED histVars
  /\ UNCHANGED <<svcResult, store, otherStreams>>

\* The options of the publishBatch calls made: none, a key function that
\* gives every payload the key "k1", or that key function together with
\* schemaVersion 0, eventType and source.
BatchOptionNames == {"none", "key", "event"}
BatchOptionsOf(name) ==
  CASE name = "key" -> [idempotencyKey |-> "const"]
    [] name = "event" -> [idempotencyKey |-> "const", schemaVersion |-> 0,
                          eventType |-> "created", source |-> "svc"]
    [] OTHER -> NoOptions

\* options.idempotencyKey?.(data)
KeyOf(fn, data) == IF fn = "const" THEN "k1" ELSE ""

\* The options publishBatch passes to buildMessageFields for one payload:
\* idempotencyKey is the key function applied to the payload, the other
\* three are handed on as they are.
MessageOptions(options, data) ==
  [n \in DOMAIN options |->
     IF n = "idempotencyKey" THEN KeyOf(options[n], data) ELSE options[n]]

\* The number of commands of a pipeline that succeeded among the first n.
RECURSIVE OkUpTo(_, _)
OkUpTo(o, n) == IF n = 0 THEN 0 ELSE OkUpTo(o, n - 1) + (IF o[n] THEN 1 ELSE 0)

\* The entries a pipeline of XADDs appends: one per command that succeeded,
\* in submission order.
RECURSIVE Appended(_, _, _, _)
Appended(messages, options, o, n) ==
  IF n = 0 THEN <<>>
  ELSE Appended(messages, options, o, n - 1)
         \o (IF o[n] THEN <<buildMessageFields(messages[n],
                                                 MessageOptions(options, messages[n]))>>
             ELSE <<>>)

\* pipeline.exec(): one [error, id] pair per command, in submission order.
PipelineResults(messages, o) ==
  [i \in 1..Len(messages) |->
     IF o[i] THEN [err |-> <<>>, id |-> IdStr[Len(stream) + OkUpTo(o, i)]]
     ELSE [err |-> <<"xadd", i>>, id |-> ""]]

messageIdsReversed(results) ==
  [i \in 1..Len(results) |-> results[Len(results) + 1 - i].id]

\* results.map((result) => result[1])
messageIds(results) == [i \in 1..Len(results) |-> results[i].id]

\* The error thrown from inside results.map: that of the first failed command.
FirstError(results) ==
  results[CHOOSE i \in 1..Len(results) :
            /\ results[i].err # <<>>
            /\ \A j \in 1..(i - 1) : results[j].err = <<>>].err

\* MessageProducerService.publishBatch: one XADD per payload in one pipeline;
\* exec() gives no result, or one result per command; the first failed
\* command's error is thrown, else the ids are returned.
publishBatch(messages, options) ==
  \E o \in [1..Len(messages) -> BOOLEAN], reply \in BOOLEAN :
    LET nfail == Len(messages) - OkUpTo(o, Len(messages))
        cost == nfail + (IF reply THEN 0 ELSE 1)
        results == PipelineResults(messages, o)
        failed == {i \in 1..Len(messages) : ~o[i]}
    IN /\ faults + cost <= cfg.maxFaults
       /\ Len(stream) + OkUpTo(o, Len(messages)) <= cfg.maxEntries
       /\ faults' = faults + cost
       /\ stream' = stream \o Appended(messages, options, o, Len(messages))
       /\ pubResult' =
            IF ~reply
            THEN [op |-> "publishBatch", args |-> messages, xadds |-> Len(messages),
                  failed |-> failed, threw |-> TRUE, ids |-> <<>>,
                  error |-> <<"Pipeline execution failed", 0>>]
            ELSE IF failed # {}
            THEN [op |-> "publishBatch", args |-> messages, xadds |-> Len(messages),
                  failed |-> failed, threw |-> TRUE, ids |-> <<>>,
                  error |-> FirstError(results)]
            ELSE [op |-> "publishBatch", args |-> messages, xadds |-> Len(messages),
                  failed |-> failed, threw |-> FALSE, ids |-> messageIds(results),
                  error |-> <<>>]
       /\ UNCHANGED <<cfg, dlq, groups, lastDelivered, pel, ledger, loop>>
       /\ UNCHANGED procVars
       /\ UNCHANGED histVars
       /\ UNCHANGED <<svcResult, store, otherStreams>>

\* ------------------------------------------------------ the services
\* randomUUID() of the n-th event.
EventIds == <<"e1", "e2", "e3", "e4", "e5", "e6", "e7", "e8", "e9">>

Statuses == {"PENDING", "DONE"}

FreshId(used, max) == CHOOSE n \in 1..max : n \notin used /\ \A m \in 1..(n - 1) : m \in used

Published == Len(stream) + Len(otherStreams)

\* Service calls run side by side: nothing in TasksService or OrdersService
\* holds a call back while another one awaits its database or its publish.
\* A call in progress occupies one of the slots of Calls; a call takes the
\* first free slot.
InProgress(c) == svcResult[c].phase # "returned"

FirstFree(c) ==
  /\ ~InProgress(c)
  /\ c = "B" => InProgress("A")

\* A call is started only while the event it may publish fits the stream
\* bound of the scenario.
CanStart == Published + Cardinality({c \in Calls : InProgress(c)}) < cfg.maxEntries

SvcFrame ==
  /\ UNCHANGED <<cfg, dlq, groups, lastDelivered, pel, ledger, loop>>
  /\ UNCHANGED procVars
  /\ UNCHANGED histVars

\* The call of slot c threw `error` before any publish.
Thrown(op, args, error) ==
  [op |-> op, phase |-> "returned", args |-> args, read |-> NoRecord,
   wrote |-> FALSE, published |-> FALSE, pubThrew |-> FALSE, threw |-> TRUE,
   error |-> error, record |-> NoRecord, eventType |-> ""]

\* The call of slot c has done its primary write and goes on to publish.
Wrote(op, args, read, record, eventType) ==
  [op |-> op, phase |-> "wrote", args |-> args, read |-> read,
   wrote |-> TRUE, published |-> FALSE, pubThrew |-> FALSE, threw |-> FALSE,
   error |-> "", record |-> record, eventType |-> eventType]

\* The primary write of a call: it is rejected (the call throws before any
\* publish), or it is done and the call goes on to publish its event.
PrimaryWrite(c, ok, newStore, read, record, eventType) ==
  /\ Spend(ok)
  /\ store' = IF ok THEN newStore ELSE store
  /\ svcResult' =
       [svcResult EXCEPT ![c] =
          IF ok THEN Wrote(svcResult[c].op, svcResult[c].args, read, record, eventType)
          ELSE Thrown(svcResult[c].op, svcResult[c].args, "rejected")]
  /\ UNCHANGED <<stream, otherStreams, pubResult>>
  /\ SvcFrame

\* TasksService.create up to its publishEvent call: prisma.task.create.  The
\* database gives every row a new id.
TasksCreate(c, status) ==
  /\ FirstFree(c)
  /\ CanStart
  /\ store.taskSeq < MaxTasks
  /\ LET id == store.taskSeq + 1
         task == [id |-> id, status |-> status]
         args == [id |-> 0, status |-> status]
     IN \E ok \in Outcomes :
          /\ Spend(ok)
          /\ store' = IF ok
                      THEN [store EXCEPT !.taskSeq = id,
                                         !.tasks = [n \in DOMAIN store.tasks \cup {id} |->
                                                      IF n = id THEN task ELSE store.tasks[n]]]
                      ELSE store
          /\ svcResult' =
               [svcResult EXCEPT ![c] =
                  IF ok THEN Wrote("tasks.create", args, NoRecord, task, "created")
                  ELSE Thrown("tasks.create", args, "rejected")]
          /\ UNCHANGED <<stream, otherStreams, pubResult>>
          /\ SvcFrame

\* TasksService.findOne as the first await of update and remove:
\* prisma.task.findUnique.  The call throws NotFoundException when there is
\* no such task, and the rejection when the query is rejected; otherwise it
\* holds the row it read and goes on to its write.
findOne(c, op, args) ==
  /\ FirstFree(c)
  /\ CanStart
  /\ \E ok \in Outcomes :
       /\ Spend(ok)
       /\ svcResult' =
            [svcResult EXCEPT ![c] =
               IF ~ok THEN Thrown(op, args, "rejected")
               ELSE IF args.id \notin DOMAIN store.tasks
               THEN Thrown(op, args, "NotFoundException")
               ELSE [op |-> op, phase |-> "found", args |-> args,
                     read |-> store.tasks[args.id],
                     wrote |-> FALSE, published |-> FALSE, pubThrew |-> FALSE,
                     threw |-> FALSE, error |-> "", record |-> NoRecord,
                     eventType |-> ""]]
  /\ UNCHANGED <<stream, otherStreams, pubResult, store>>
  /\ SvcFrame

\* TasksService.update is called: const currentTask = await this.findOne(id).
\* status "" is an update that does not set the status.
TasksUpdate(c, id, status) == findOne(c, "tasks.update", [id |-> id, status |-> status])

\* TasksService.remove is called: const currentTask = await this.findOne(id)
TasksRemove(c, id) == findOne(c, "tasks.remove", [id |-> id, status |-> ""])

\* A write to a row that is no longer there: the database rejects it
\* (P2025), or the command is rejected before that as any command may be.
\* The call throws the rejection either way.
RowGone(c) ==
  /\ \E ok \in Outcomes :
       /\ Spend(ok)
       /\ svcResult' = [svcResult EXCEPT ![c] =
                          Thrown(@.op, @.args, IF ok THEN "P2025" ELSE "rejected")]
  /\ UNCHANGED <<stream, otherStreams, pubResult, store>>
  /\ SvcFrame

\* TasksService.update after findOne: prisma.task.update, then
\* statusChanged = updateTaskDto.status && updateTaskDto.status !==
\* currentTask.status, where currentTask is the row read by findOne.
prismaTaskUpdate(c) ==
  LET call == svcResult[c]
      id == call.args.id
      task == [id |-> id,
               status |-> IF call.args.status # "" THEN call.args.status
                          ELSE store.tasks[id].status]
      statusChanged == call.args.status # "" /\ call.args.status # call.read.status
  IN /\ call.phase = "found"
     /\ call.op = "tasks.update"
     /\ IF id \notin DOMAIN store.tasks
        THEN RowGone(c)
        ELSE \E ok \in Outcomes :
               PrimaryWrite(c, ok, [store EXCEPT !.tasks[id] = task], call.read, task,
                            IF statusChanged THEN "status_changed" ELSE "updated")

\* TasksService.remove after findOne: prisma.task.delete, which gives the
\* deleted row.
prismaTaskDelete(c) ==
  LET call == svcResult[c]
      id == call.args.id
  IN /\ call.phase = "found"
     /\ call.op = "tasks.remove"
     /\ IF id \notin DOMAIN store.tasks
        THEN RowGone(c)
        ELSE \E ok \in Outcomes :
               PrimaryWrite(c, ok,
                            [store EXCEPT !.tasks = [n \in DOMAIN store.tasks \ {id} |->
                                                       store.tasks[n]]],
                            call.read, store.tasks[id], "deleted")

\* OrdersService.create up to its publish call: this.orders.set(orderId,
\* order), in the call itself.
OrdersCreate(c) ==
  /\ FirstFree(c)
  /\ CanStart
  /\ Cardinality(DOMAIN store.orders) < MaxOrders
  /\ LET id == FreshId(DOMAIN store.orders, MaxOrders)
         order == [id |-> id, status |-> "ORDER"]
     IN /\ store' = [store EXCEPT !.orders = [n \in DOMAIN store.orders \cup {id} |->
                                                IF n = id THEN order ELSE store.orders[n]]]
        /\ svcResult' =
             [svcResult EXCEPT ![c] =
                Wrote("orders.create", [id |-> 0, status |-> ""], NoRecord, order, "order")]
        /\ UNCHANGED <<stream, otherStreams, pubResult, faults>>
        /\ SvcFrame

\* The stream an event is published to: `tasks:${event.eventType}`, or
\* 'orders:created'.
EventStream(eventType) ==
  CASE eventType = "created" -> "tasks:created"
    [] eventType = "updated" -> "tasks:updated"
    [] eventType = "status_changed" -> "tasks:status_changed"
    [] eventType = "deleted" -> "tasks:deleted"
    [] OTHER -> "orders:created"

\* What the caller of a publish that threw gets: nothing, the error is
\* logged and swallowed and the written record is returned.
AfterPublishErrorRethrown(call) ==
  [call EXCEPT !.phase = "returned", !.pubThrew = TRUE, !.threw = TRUE,
               !.record = NoRecord]

AfterPublishError(call) == [call EXCEPT !.phase = "returned", !.pubThrew = TRUE]

\* The rest of a service call: publish the event inside try/catch
\* (TasksService.publishEvent with its four options, OrdersService.create
\* with none), then return the record.
publishEvent(c) ==
  LET call == svcResult[c]
      options == IF call.op = "orders.create" THEN NoOptions
                 ELSE TaskEventOptions(EventIds[Published + 1], call.eventType,
                                       cfg.service["i1"])
      fields == buildMessageFields(call.eventType, options)
      name == EventStream(call.eventType)
  IN /\ call.phase = "wrote"
     /\ \E ok \in Outcomes :
          /\ Spend(ok)
          /\ IF ok /\ name = StreamName
             THEN stream' = Append(stream, fields) /\ UNCHANGED otherStreams
             ELSE IF ok
             THEN /\ otherStreams' = Append(otherStreams, [stream |-> name, fields |-> fields])
                  /\ UNCHANGED stream
             ELSE UNCHANGED <<stream, otherStreams>>
          /\ pubResult' =
               IF ok
               THEN [op |-> "publish", args |-> <<call.eventType>>, xadds |-> 1,
                     failed |-> {}, threw |-> FALSE,
                     ids |-> <<IdStr[(IF name = StreamName THEN Len(stream)
                                      ELSE Len(otherStreams)) + 1]>>,
                     error |-> <<>>]
               ELSE [op |-> "publish", args |-> <<call.eventType>>, xadds |-> 1,
                     failed |-> {1}, threw |-> TRUE, ids |-> <<>>,
                     error |-> <<"xadd", 1>>]
          /\ svcResult' =
               [svcResult EXCEPT ![c] =
                  IF ok THEN [call EXCEPT !.phase = "returned", !.published = TRUE]
                  ELSE AfterPublishError(call)]
     /\ UNCHANGED store
     /\ SvcFrame

\* An entry written to the stream by a client other than
\* MessageProducerService, without a 'data' field.
XaddWithoutData ==
  /\ Len(stream) < cfg.maxEntries
  /\ stream' = Append(stream, <<"payload", "{}">>)
  /\ UNCHANGED <<cfg, dlq, groups, lastDelivered, pel, ledger, faults, loop>>
  /\ UNCHANGED procVars
  /\ UNCHANGED histVars
  /\ UNCHANGED apiVars

\* ------------------------------------------------- time (environment)
\* TickMs pass: the idle time of every pending entry grows by TickMs, each
\* from its own value (the time since its last delivery).  An idle time is
\* kept up to the claim threshold, above which its value no longer matters.
Tick ==
  /\ \E g \in Groups : \E id \in DOMAIN pel[g] : pel[g][id].idle < MinIdleMs
  /\ pel' = [g \in Groups |->
               [id \in DOMAIN pel[g] |->
                  [pel[g][id] EXCEPT !.idle = Min(@ + TickMs, MinIdleMs)]]]
  /\ UNCHANGED <<cfg, stream, dlq, groups, lastDelivered, ledger, faults, loop>>
  /\ UNCHANGED procVars
  /\ UNCHANGED histVars
  /\ UNCHANGED apiVars

\* The ttl of a ledger record (SET key 1 EX ttlSeconds) runs out.
Expire(k) ==
  /\ k \in ledger
  /\ Cardinality(expired) < cfg.maxExpiries
  /\ ledger' = ledger \ {k}
  /\ expired' = expired \cup {k}
  /\ UNCHANGED <<cfg, stream, dlq, groups, lastDelivered, pel, faults, loop>>
  /\ UNCHANGED procVars
  /\ UNCHANGED <<invoked, skipped, marked, escaped, handledBy, subErrors>>
  /\ UNCHANGED apiVars

\* ------------------------------------------------ process life cycle
WhileConditionShutdownOnly(registered, down) == ~down

WhileConditionRegistryOnly(registered, down) == registered

\* this.consumers.get(consumerKey) && !this.isShuttingDown
WhileCondition(registered, down) == registered /\ ~down

\* consumeMessages is called without await: its body runs within the call up
\* to its first await, so the while condition is evaluated for the first
\* time right after consumers.set(consumerKey, true), and the loop is either
\* inside its first cycle or over when subscribe returns.
FirstPosition(i) ==
  IF WhileCondition(TRUE, isShuttingDown[i]) THEN "pending" ELSE "stopped"

\* Date.now() in a subscribe call: the millisecond of the latest subscribe
\* call that read the clock, or a later one.  Only whether two calls read the
\* same millisecond matters, so a later one is read only when a running loop
\* is named after the current one.
ClockUsed == \E o \in Loops : loop[o].name = <<cfg.service[InstOf(o)], clock>>

Now(l) == IF cfg.cname[l] = "" /\ ClockUsed THEN {clock, clock + 1} ELSE {clock}

\* consumerName || `${config.service.name}-${Date.now()}`
ConsumerName(l, now) ==
  IF cfg.cname[l] # "" THEN <<cfg.cname[l], 0>>
  ELSE <<cfg.service[InstOf(l)], now>>

\* A subscribe that takes over the triple: the loops already running for
\* the same registry key are stopped.
SubscribeReplaces(l) ==
  LET i == InstOf(l)
      g == GroupOf(l)
      name == ConsumerName(l, clock)
  IN /\ l \in cfg.loops
     /\ up[i]
     /\ loop[l].pc = "none"
     /\ groups' = groups \cup {g}
     /\ consumers' = [consumers EXCEPT ![i] = @ \cup {ConsumerKey(g, name)}]
     /\ clock' = clock
     /\ loop' = [o \in Loops |->
                   IF o = l THEN [IdleLoop EXCEPT !.pc = FirstPosition(i), !.name = name]
                   ELSE IF InstOf(o) = i /\ GroupOf(o) = g /\ loop[o].name = name
                   THEN [loop[o] EXCEPT !.pc = "stopped"]
                   ELSE loop[o]]
     /\ UNCHANGED <<cfg, stream, dlq, lastDelivered, pel, ledger, faults>>
     /\ UNCHANGED <<up, isShuttingDown, restarts>>
     /\ UNCHANGED histVars
     /\ UNCHANGED apiVars

\* MessageConsumerService.subscribe: XGROUP CREATE stream group 0 MKSTREAM
\* (BUSYGROUP swallowed), consumers.set(key, true), consumeMessages called
\* without await.
Subscribe(l) ==
  LET i == InstOf(l)
      g == GroupOf(l)
  IN /\ l \in cfg.loops
     /\ up[i]
     /\ loop[l].pc = "none"
     /\ groups' = groups \cup {g}
     /\ \E now \in Now(l) :
          LET name == ConsumerName(l, now)
          IN /\ consumers' = [consumers EXCEPT ![i] = @ \cup {ConsumerKey(g, name)}]
             /\ clock' = now
             /\ loop' = [loop EXCEPT ![l] = [IdleLoop EXCEPT !.pc = FirstPosition(i),
                                                             !.name = name]]
     /\ UNCHANGED <<cfg, stream, dlq, lastDelivered, pel, ledger, faults>>
     /\ UNCHANGED <<up, isShuttingDown, restarts>>
     /\ UNCHANGED histVars
     /\ UNCHANGED apiVars

\* What a subscribe call whose XGROUP CREATE was rejected with an error other
\* than BUSYGROUP leaves behind: the error is logged and rethrown before
\* consumers.set and before consumeMessages is called.
RegisteredDespiteError(l) ==
  /\ consumers' = [consumers EXCEPT ![InstOf(l)] =
                     @ \cup {ConsumerKey(GroupOf(l), ConsumerName(l, clock))}]
  /\ loop' = [loop EXCEPT ![l] = [IdleLoop EXCEPT !.pc = FirstPosition(InstOf(l)),
                                                  !.name = ConsumerName(l, clock)]]

NotRegistered(l) == UNCHANGED <<consumers, loop>>

\* MessageConsumerService.subscribe when XGROUP CREATE is rejected with an
\* error other than BUSYGROUP: the error reaches the caller.
SubscribeFails(l) ==
  /\ l \in cfg.loops
  /\ up[InstOf(l)]
  /\ loop[l].pc = "none"
  /\ faults < cfg.maxFaults
  /\ faults' = faults + 1
  /\ subErrors' = subErrors \cup {l}
  /\ NotRegistered(l)
  /\ UNCHANGED <<cfg, stream, dlq, groups, lastDelivered, pel, ledger>>
  /\ UNCHANGED <<up, isShuttingDown, restarts, clock>>
  /\ UNCHANGED <<invoked, skipped, marked, expired, escaped, handledBy>>
  /\ UNCHANGED apiVars

\* MessageConsumerService.unsubscribe(stream, group, consumerName):
\* consumers.delete(consumerKey).
Unsubscribe(l) ==
  LET i == InstOf(l)
      key == ConsumerKey(GroupOf(l), <<cfg.cname[l], 0>>)
  IN /\ l \in cfg.loops
     /\ up[i]
     /\ cfg.cname[l] # ""
     /\ key \in consumers[i]
     /\ consumers' = [consumers EXCEPT ![i] = @ \ {key}]
     /\ UNCHANGED redisVars
     /\ UNCHANGED <<cfg, up, isShuttingDown, restarts, clock, loop>>
     /\ UNCHANGED histVars
     /\ UNCHANGED apiVars

\* MessageConsumerService.onModuleDestroy: isShuttingDown = true,
\* consumers.clear(), then a 5000 ms grace window.
OnModuleDestroy(i) ==
  /\ i \in cfg.mayStop
  /\ up[i]
  /\ ~isShuttingDown[i]
  /\ isShuttingDown' = [isShuttingDown EXCEPT ![i] = TRUE]
  /\ consumers' = [consumers EXCEPT ![i] = {}]
  /\ UNCHANGED redisVars
  /\ UNCHANGED <<cfg, up, restarts, clock, loop>>
  /\ UNCHANGED histVars
  /\ UNCHANGED apiVars

\* The grace window of 5000 ms is over and the process ends: whatever its
\* loops were doing is abandoned where it stands.  Date.now() is from now on
\* later than in every subscribe call made before the shutdown began.
ProcessExit(i) ==
  /\ up[i]
  /\ isShuttingDown[i]
  /\ up' = [up EXCEPT ![i] = FALSE]
  /\ loop' = [l \in Loops |-> IF InstOf(l) = i THEN IdleLoop ELSE loop[l]]
  /\ clock' = clock + 1
  /\ UNCHANGED redisVars
  /\ UNCHANGED <<cfg, isShuttingDown, consumers, restarts>>
  /\ UNCHANGED histVars
  /\ UNCHANGED apiVars

\* The service is started again: a new process, a new MessageConsumerService.
Restart(i) ==
  /\ ~up[i]
  /\ restarts < cfg.maxRestarts
  /\ up' = [up EXCEPT ![i] = TRUE]
  /\ isShuttingDown' = [isShuttingDown EXCEPT ![i] = FALSE]
  /\ consumers' = [consumers EXCEPT ![i] = {}]
  /\ restarts' = restarts + 1
  /\ UNCHANGED redisVars
  /\ UNCHANGED <<cfg, clock, loop>>
  /\ UNCHANGED histVars
  /\ UNCHANGED apiVars


\* --------------------------------------------------- the delivery loop
Running(l) == up[InstOf(l)] /\ loop[l].pc # "none"

LoopFrame(l) == UNCHANGED <<cfg, up, isShuttingDown, consumers, restarts, clock>>

\* Start processMessage(stream, group, id, fields, handler, options) with
\* retryCount = 0 for an entry delivered `count` times.
BeginProc(rec, id, origin, count) ==
  [pc |-> "p_begin", name |-> rec.name, pendq |-> rec.pendq, batch |-> rec.batch,
   pauses |-> rec.pauses]
    @@ [NoProc EXCEPT !.cur = id, !.origin = origin, !.dcount = count]

\* Leave per-entry processing.
EndProc(rec, pc) ==
  [pc |-> pc, name |-> rec.name, pendq |-> rec.pendq, batch |-> rec.batch,
   pauses |-> rec.pauses] @@ NoProc

\* The while condition of consumeMessages as loop l finds it.
LoopCondition(l) ==
  WhileCondition(ConsumerKey(GroupOf(l), loop[l].name) \in consumers[InstOf(l)],
                 isShuttingDown[InstOf(l)])

\* consumeMessages: while (this.consumers.get(consumerKey) && !this.isShuttingDown)
LoopCheck(l) ==
  LET active == LoopCondition(l)
  IN /\ Running(l)
     /\ loop[l].pc = "check"
     /\ loop' = [loop EXCEPT ![l].pc = IF active THEN "pending" ELSE "stopped"]
     /\ UNCHANGED redisVars
     /\ LoopFrame(l)
     /\ UNCHANGED histVars
     /\ UNCHANGED apiVars

\* processPendingMessages: XPENDING stream group - + 10 consumer.  An error is
\* caught and logged inside processPendingMessages.
LoopPending(l) ==
  /\ Running(l)
  /\ loop[l].pc = "pending"
  /\ \E ok \in Outcomes :
       /\ Spend(ok)
       /\ LET q == IF ok THEN xpending(GroupOf(l), loop[l].name) ELSE <<>>
          IN loop' = [loop EXCEPT ![l].pendq = q,
                                  ![l].pc = IF q = <<>> THEN "read" ELSE "claim"]
  /\ UNCHANGED <<stream, dlq, groups, lastDelivered, pel, ledger>>
  /\ LoopFrame(l)
  /\ UNCHANGED histVars
  /\ UNCHANGED apiVars

\* XCLAIM stream group consumer 60000 id: the entry is claimed when it is
\* still pending and has been idle for the minimum idle time.
Claimable(g, id) == id \in DOMAIN pel[g] /\ pel[g][id].idle >= MinIdleMs

NextPendingReadsFirst(pendq) == "read"

\* processPendingMessages, `for (const [messageId] of pending)`: the next
\* turn of the loop, and the read when the list is exhausted.
NextPending(pendq) == IF pendq = <<>> THEN "read" ELSE "claim"

\* processPendingMessages, one turn of `for (const [messageId] of pending)`.
LoopClaim(l) ==
  LET g == GroupOf(l)
      id == Head(loop[l].pendq)
      rest == [loop[l] EXCEPT !.pendq = Tail(loop[l].pendq)]
  IN /\ Running(l)
     /\ loop[l].pc = "claim"
     /\ \E ok \in Outcomes :
          /\ Spend(ok)
          /\ IF ~ok
             THEN /\ loop' = [loop EXCEPT ![l].pendq = <<>>, ![l].pc = "read"]
                  /\ UNCHANGED pel
             ELSE IF Claimable(g, id)
             THEN /\ pel' = [pel EXCEPT ![g][id] =
                               [owner |-> loop[l].name, idle |-> 0,
                                count |-> pel[g][id].count + 1]]
                  /\ loop' = [loop EXCEPT ![l] =
                                BeginProc(rest, id, "reclaim", pel[g][id].count + 1)]
             ELSE /\ loop' = [loop EXCEPT ![l] =
                                [rest EXCEPT !.pc = NextPending(rest.pendq)]]
                  /\ UNCHANGED pel
     /\ UNCHANGED <<stream, dlq, groups, lastDelivered, ledger>>
     /\ LoopFrame(l)
     /\ UNCHANGED histVars
     /\ UNCHANGED apiVars

xreadgroupNewestFirst(from, to) == [k \in 1..(to - from + 1) |-> to - k + 1]

\* The reply of XREADGROUP ... COUNT 10 STREAMS stream '>': the entries not
\* yet delivered to the group, in stream order.
xreadgroup(from, to) == [k \in 1..(to - from + 1) |-> from + k - 1]

\* readAndProcessNewMessages: XREADGROUP GROUP group consumer BLOCK 5000
\* COUNT 10 STREAMS stream '>', then processMessage for each entry of the
\* reply in turn.  An error reaches the catch of consumeMessages.
LoopRead(l) ==
  LET g == GroupOf(l)
      from == lastDelivered[g] + 1
      to == Min(lastDelivered[g] + ReadCount, Len(stream))
      new == xreadgroup(from, to)
  IN /\ Running(l)
     /\ loop[l].pc = "read"
     /\ \E ok \in Outcomes :
          /\ Spend(ok)
          /\ IF ~ok
             THEN /\ loop' = [loop EXCEPT ![l].pc = "errpause"]
                  /\ UNCHANGED <<pel, lastDelivered>>
             ELSE IF to < from
             THEN /\ loop' = [loop EXCEPT ![l].pc = "check"]
                  /\ UNCHANGED <<pel, lastDelivered>>
             ELSE /\ lastDelivered' = [lastDelivered EXCEPT ![g] = to]
                  /\ pel' = [pel EXCEPT ![g] =
                               [id \in (DOMAIN pel[g]) \cup (from..to) |->
                                  IF id \in from..to
                                  THEN [owner |-> loop[l].name, idle |-> 0, count |-> 1]
                                  ELSE pel[g][id]]]
                  /\ loop' = [loop EXCEPT ![l] =
                                BeginProc([loop[l] EXCEPT !.batch = Tail(new)],
                                          Head(new), "read", 1)]
     /\ UNCHANGED <<stream, dlq, groups, ledger>>
     /\ LoopFrame(l)
     /\ UNCHANGED histVars
     /\ UNCHANGED apiVars

\* A pause that doubles with every read error of the loop: 5000, 10000, ...
ErrorPauseLadder(l) ==
  IF ~isShuttingDown[InstOf(l)]
  THEN [logged |-> TRUE, wait |-> (2 ^ Len(loop[l].pauses)) * ErrorPauseMs]
  ELSE [logged |-> FALSE, wait |-> 0]

\* handleConsumeError: if (!this.isShuttingDown) { log; wait 5000 ms }
ErrorPause(l) ==
  IF ~isShuttingDown[InstOf(l)] THEN [logged |-> TRUE, wait |-> ErrorPauseMs]
  ELSE [logged |-> FALSE, wait |-> 0]

\* The catch of consumeMessages: handleConsumeError, then the while
\* condition is evaluated again.
handleConsumeError(l) ==
  /\ Running(l)
  /\ loop[l].pc = "errpause"
  /\ loop' = [loop EXCEPT ![l].pc = "check",
                          ![l].pauses = Append(@, ErrorPause(l))]
  /\ UNCHANGED redisVars
  /\ LoopFrame(l)
  /\ UNCHANGED histVars
  /\ UNCHANGED apiVars


\* ------------------------------------------------------ processMessage
InProc(l, pc) == Running(l) /\ loop[l].pc = pc

isDuplicateNever(idempotencyKey) == FALSE

\* isDuplicate: (await client.get(idempotencyKey)) != null
isDuplicate(idempotencyKey) == idempotencyKey \in ledger

Fail(rec, err, fault) ==
  [rec EXCEPT !.pc = "p_catch", !.err = err, !.pfault = @ \/ fault]

\* processMessage, from its first line to the first await: find and parse
\* the 'data' field, run the validator, compute the idempotency key and, when
\* there is one, GET it (isDuplicate).
ProcBegin(l) ==
  LET g == GroupOf(l)
      fields == stream[loop[l].cur]
      parsed == HasData(fields)
      validated == parsed /\ JsonParses(DataOf(fields)) /\ cfg.validate[g]
      rec == [loop[l] EXCEPT !.decodes = @ + (IF parsed THEN 1 ELSE 0),
                             !.validations = @ + (IF validated THEN 1 ELSE 0)]
      key == getIdempotencyKey(cfg.idem[g], cfg.keyField[g], IdStr[rec.cur], fields)
  IN /\ InProc(l, "p_begin")
     /\ IF ~HasData(fields)
        THEN /\ loop' = [loop EXCEPT ![l] = Fail(rec, <<"missing data field", 0>>, FALSE)]
             /\ UNCHANGED faults
        ELSE IF ~JsonParses(DataOf(fields))
        THEN /\ loop' = [loop EXCEPT ![l] = Fail(rec, <<"JSON.parse", 0>>, FALSE)]
             /\ UNCHANGED faults
        ELSE IF cfg.validate[g] /\ ~ValidatorAccepts(DataOf(fields))
        THEN /\ loop' = [loop EXCEPT ![l] = Fail(rec, <<"Invalid message payload", 0>>, FALSE)]
             /\ UNCHANGED faults
        ELSE IF key = NoKey
        THEN /\ loop' = [loop EXCEPT ![l] = [rec EXCEPT !.pc = "p_handler", !.ikey = NoKey]]
             /\ UNCHANGED faults
        ELSE \E ok \in Outcomes :
               /\ Spend(ok)
               /\ loop' = [loop EXCEPT ![l] =
                    IF ~ok THEN Fail([rec EXCEPT !.ikey = key], <<"redis get", 0>>, TRUE)
                    ELSE [rec EXCEPT !.ikey = key, !.reads = @ + 1,
                                     !.pc = IF isDuplicate(key) THEN "p_dupack"
                                            ELSE "p_handler"]]
     /\ UNCHANGED <<stream, dlq, groups, lastDelivered, pel, ledger>>
     /\ LoopFrame(l)
     /\ UNCHANGED histVars
     /\ UNCHANGED apiVars

\* The duplicate branch: XACK, log, return.
ProcDupAck(l) ==
  LET g == GroupOf(l)
      rec == loop[l]
  IN /\ InProc(l, "p_dupack")
     /\ \E ok \in Outcomes :
          /\ Spend(ok)
          /\ IF ok
             THEN /\ xack(g, rec.cur)
                  /\ skipped' = skipped \cup {<<g, rec.cur, rec.dcount>>}
                  /\ loop' = [loop EXCEPT ![l].pc = "p_ret", ![l].outcome = "dup"]
             ELSE /\ loop' = [loop EXCEPT ![l] = Fail(rec, <<"redis xack", 0>>, TRUE)]
                  /\ UNCHANGED <<pel, skipped>>
     /\ UNCHANGED <<stream, dlq, groups, lastDelivered, ledger>>
     /\ LoopFrame(l)
     /\ UNCHANGED <<invoked, marked, expired, escaped, handledBy, subErrors>>
     /\ UNCHANGED apiVars

AfterHandlerMarksFirst == "p_mark"

\* What follows a handler that returned: await client.xack(...), and only
\* then markProcessed.
AfterHandler == "p_ack"

\* await handler(payload): the handler returns or throws.
ProcHandler(l) ==
  LET g == GroupOf(l)
      rec == loop[l]
  IN /\ InProc(l, "p_handler")
     /\ invoked' = invoked \cup {<<g, rec.cur, rec.dcount>>}
     /\ handledBy' = handledBy \cup {<<g, rec.cur, rec.name>>}
     /\ \E ok \in BOOLEAN :
          loop' = [loop EXCEPT ![l] =
            IF ok THEN [rec EXCEPT !.calls = @ + 1, !.pc = AfterHandler]
            ELSE Fail([rec EXCEPT !.calls = @ + 1, !.hfails = @ + 1],
                      <<"handler", rec.calls + 1>>, FALSE)]
     /\ UNCHANGED redisVars
     /\ LoopFrame(l)
     /\ UNCHANGED <<skipped, marked, expired, escaped, subErrors>>
     /\ UNCHANGED apiVars

\* After the handler: XACK.
ProcAck(l) ==
  LET g == GroupOf(l)
      rec == loop[l]
  IN /\ InProc(l, "p_ack")
     /\ \E ok \in Outcomes :
          /\ Spend(ok)
          /\ IF ok
             THEN /\ xack(g, rec.cur)
                  /\ loop' = [loop EXCEPT ![l] =
                       IF rec.ikey # NoKey THEN [rec EXCEPT !.pc = "p_mark"]
                       ELSE [rec EXCEPT !.pc = "p_ret", !.outcome = "done"]]
             ELSE /\ loop' = [loop EXCEPT ![l] = Fail(rec, <<"redis xack", 0>>, TRUE)]
                  /\ UNCHANGED pel
     /\ UNCHANGED <<stream, dlq, groups, lastDelivered, ledger>>
     /\ LoopFrame(l)
     /\ UNCHANGED histVars
     /\ UNCHANGED apiVars

\* markProcessed: SET key 1 EX ttlSeconds.
markProcessed(l) ==
  LET g == GroupOf(l)
      rec == loop[l]
  IN /\ InProc(l, "p_mark")
     /\ \E ok \in Outcomes :
          /\ Spend(ok)
          /\ IF ok
             THEN /\ ledger' = ledger \cup {rec.ikey}
                  /\ marked' = marked \cup {<<g, rec.ikey>>}
                  /\ loop' = [loop EXCEPT ![l].pc = "p_ret", ![l].outcome = "done"]
             ELSE /\ loop' = [loop EXCEPT ![l] = Fail(rec, <<"redis set", 0>>, TRUE)]
                  /\ UNCHANGED <<ledger, marked>>
     /\ UNCHANGED <<stream, dlq, groups, lastDelivered, pel>>
     /\ LoopFrame(l)
     /\ UNCHANGED <<invoked, skipped, expired, escaped, handledBy, subErrors>>
     /\ UNCHANGED apiVars

CanRetryOffByOne(retryCount) == retryCount <= maxRetries

\* if (retryCount < maxRetries)
CanRetry(retryCount) == retryCount < maxRetries

RetryFromHandler == "p_handler"

\* await this.processMessage(..., retryCount + 1): the retry is a call of
\* processMessage, which starts at its first line.
RetryFrom == "p_begin"

\* The catch block: back off and call processMessage again with
\* retryCount + 1, or go on to the dead letter queue.
ProcCatch(l) ==
  LET rec == loop[l]
  IN /\ InProc(l, "p_catch")
     /\ loop' = [loop EXCEPT ![l] =
          IF CanRetry(rec.retryCount)
          THEN [rec EXCEPT !.pc = RetryFrom, !.retryCount = @ + 1,
                           !.delays = Append(@, BackoffDelay(rec.retryCount))]
          ELSE [rec EXCEPT !.pc = "p_dlq"]]
     /\ UNCHANGED redisVars
     /\ LoopFrame(l)
     /\ UNCHANGED histVars
     /\ UNCHANGED apiVars

\* What a failed XADD to the dead letter stream leads to: the error is
\* caught inside moveToDeadLetterQueue.
AfterDlqFailureEscapes == "errpause"

AfterDlqFailure == "p_dlqack"

\* moveToDeadLetterQueue: XADD stream:dlq * ...fields originalMessageId id
\* error message failedAt now.
moveToDeadLetterQueue(l) ==
  LET g == GroupOf(l)
      rec == loop[l]
  IN /\ InProc(l, "p_dlq")
     /\ \E ok \in Outcomes :
          /\ Spend(ok)
          /\ IF ok
             THEN /\ dlq' = Append(dlq, [fields |-> stream[rec.cur],
                                        originalMessageId |-> IdStr[rec.cur],
                                        error |-> rec.err,
                                        group |-> g, delivery |-> rec.dcount])
                  /\ loop' = [loop EXCEPT ![l].pc = "p_dlqack",
                                          ![l].dlqIdx = Len(dlq) + 1]
             ELSE /\ loop' = [loop EXCEPT ![l].pc = AfterDlqFailure,
                                          ![l].dlqFail = TRUE]
                  /\ UNCHANGED dlq
     /\ UNCHANGED <<stream, groups, lastDelivered, pel, ledger>>
     /\ LoopFrame(l)
     /\ UNCHANGED histVars
     /\ UNCHANGED apiVars

AfterEscapeAlwaysPauses(origin) == "errpause"

\* Where an error thrown out of processMessage is caught: in
\* processPendingMessages, which logs it and returns to consumeMessages, or
\* in consumeMessages, which calls handleConsumeError.
AfterEscape(origin) == IF origin = "reclaim" THEN "read" ELSE "errpause"

\* "Still acknowledge to remove from pending".  An error here is thrown out
\* of every nested processMessage call: to the catch of
\* processPendingMessages (reclaim) or of consumeMessages (read).
ProcDlqAck(l) ==
  LET g == GroupOf(l)
      rec == loop[l]
  IN /\ InProc(l, "p_dlqack")
     /\ \E ok \in Outcomes :
          /\ Spend(ok)
          /\ IF ok
             THEN /\ xack(g, rec.cur)
                  /\ loop' = [loop EXCEPT ![l].pc = "p_ret", ![l].outcome = "dlq"]
                  /\ UNCHANGED escaped
             ELSE /\ loop' = [loop EXCEPT ![l] =
                       EndProc([rec EXCEPT !.pendq = <<>>, !.batch = <<>>],
                               AfterEscape(rec.origin))]
                  /\ escaped' = escaped \cup {<<g, rec.cur, rec.dcount>>}
                  /\ UNCHANGED pel
     /\ UNCHANGED <<stream, dlq, groups, lastDelivered, ledger>>
     /\ LoopFrame(l)
     /\ UNCHANGED <<invoked, skipped, marked, expired, handledBy, subErrors>>
     /\ UNCHANGED apiVars

\* processMessage returns to the `for` loop that called it.
ProcReturn(l) ==
  LET g == GroupOf(l)
      rec == loop[l]
  IN /\ InProc(l, "p_ret")
     /\ loop' = [loop EXCEPT ![l] =
          IF rec.origin = "reclaim"
          THEN EndProc(rec, NextPending(rec.pendq))
          ELSE IF rec.batch = <<>> THEN EndProc(rec, "check")
          ELSE BeginProc([rec EXCEPT !.batch = Tail(rec.batch)],
                         Head(rec.batch), "read", 1)]
     /\ UNCHANGED redisVars
     /\ LoopFrame(l)
     /\ UNCHANGED histVars
     /\ UNCHANGED apiVars

\* One step of loop l when it was subscribed without idempotency options
\* (the ledger steps are then never taken).
PlainStep(l) ==
  \/ LoopCheck(l)
  \/ LoopPending(l)
  \/ LoopClaim(l)
  \/ LoopRead(l)
  \/ handleConsumeError(l)
  \/ ProcBegin(l)
  \/ ProcHandler(l)
  \/ ProcAck(l)
  \/ ProcCatch(l)
  \/ moveToDeadLetterQueue(l)
  \/ ProcDlqAck(l)
  \/ ProcReturn(l)

\* One step of loop l.
Step(l) ==
  \/ PlainStep(l)
  \/ ProcDupAck(l)
  \/ markProcessed(l)


\* ------------------------------------------------------ specifications
\* Spec: one service instance with one subscription (consumer name "c1",
\* group gA), with and without idempotency options; entries published with
\* and without an idempotency key; log-service faults; ledger expiry.
SoloScenarios ==
  {Scenario({"L1"}, [l \in Loops |-> "i1"], [l \in Loops |-> "gA"],
            [l \in Loops |-> "c1"], [g \in Groups |-> idem],
            [g \in Groups |-> FALSE], {"{}"}, {"", "k1"}, {},
            MaxEntries, MaxFaults, 0, MaxExpiries) : idem \in BOOLEAN}

Init == \E c \in SoloScenarios : InitState(c)

Next ==
  \/ \E d \in cfg.payloads, k \in cfg.keys : Publish(d, EntryOptions(k))
  \/ Tick
  \/ \E k \in ledger : Expire(k)
  \/ \E l \in Loops : Subscribe(l)
  \/ \E l \in Loops : Step(l)

Spec == Init /\ [][Next]_vars

\* What the code's scheduling guarantees: a running loop takes its next step
\* (every await settles: handlers terminate, Redis answers), time passes, and
\* a started service subscribes (onModuleInit).
Fairness ==
  /\ \A l \in Loops : WF_vars(Step(l))
  /\ \A l \in Loops : WF_vars(Subscribe(l))
  /\ WF_vars(Tick)

\* PairSpec: two service instances, each with one subscription under its own
\* consumer name, in the same group, with idempotency
\* options; the first process may shut down and end.
PairScenarios ==
  {Scenario({"L1", "L2"}, [l \in Loops |-> IF l = "L1" THEN "i1" ELSE "i2"],
            [l \in Loops |-> IF l = "L1" THEN "gA" ELSE g2],
            [l \in Loops |-> IF l = "L1" THEN "c1" ELSE "c2"],
            [g \in Groups |-> TRUE], [g \in Groups |-> FALSE],
            {"{}"}, {"k1"}, {"i1"}, MaxEntriesPair, MaxFaultsPair, 0, 0) :
     g2 \in {"gA"}}

InitPair == \E c \in PairScenarios : InitState(c)

NextPair ==
  \/ \E d \in cfg.payloads, k \in cfg.keys : Publish(d, EntryOptions(k))
  \/ Tick
  \/ \E l \in Loops : Subscribe(l)
  \/ \E i \in Insts : OnModuleDestroy(i)
  \/ \E i \in Insts : ProcessExit(i)
  \/ \E l \in Loops : Step(l)

\* OrderSpec: one subscription without options (as OrderConsumerService
\* subscribes) on a stream of up to MaxEntriesOrder entries.
OrderScenarios ==
  {Scenario({"L1"}, [l \in Loops |-> "i1"], [l \in Loops |-> "gA"],
            [l \in Loops |-> "c1"], [g \in Groups |-> FALSE],
            [g \in Groups |-> FALSE], {"{}"}, {""}, {},
            MaxEntriesOrder, MaxFaults, 0, 0)}

InitOrder == \E c \in OrderScenarios : InitState(c)

NextOrder ==
  \/ \E d \in cfg.payloads, k \in cfg.keys : Publish(d, EntryOptions(k))
  \/ Tick
  \/ \E l \in Loops : Subscribe(l)
  \/ \E l \in Loops : PlainStep(l)

OrderSpec == InitOrder /\ [][NextOrder]_vars

\* GroupsSpec: two services, each subscribing in its own consumer group with
\* idempotency options, on the same stream.
GroupsScenarios ==
  {Scenario({"L1", "L2"}, [l \in Loops |-> IF l = "L1" THEN "i1" ELSE "i2"],
            [l \in Loops |-> IF l = "L1" THEN "gA" ELSE "gB"],
            [l \in Loops |-> IF l = "L1" THEN "c1" ELSE "c2"],
            [g \in Groups |-> TRUE], [g \in Groups |-> FALSE],
            {"{}"}, {"", "k1"}, {}, MaxEntriesGroups, MaxFaultsPair, 0, 0)}

InitGroups == \E c \in GroupsScenarios : InitState(c)

NextGroups ==
  \/ \E d \in cfg.payloads, k \in cfg.keys : Publish(d, EntryOptions(k))
  \/ Tick
  \/ \E l \in Loops : Subscribe(l)
  \/ \E l \in Loops : Step(l)

GroupsSpec == InitGroups /\ [][NextGroups]_vars

PairSpec == InitPair /\ [][NextPair]_vars /\ Fairness

\* RestartSpec: one service instance with one subscription with idempotency
\* options (as TaskConsumerService subscribes), with an explicit consumer
\* name or with the default one; the process may shut down, end and be
\* started again.
RestartScenarios ==
  {Scenario({"L1"}, [l \in Loops |-> "i1"], [l \in Loops |-> "gA"],
            [l \in Loops |-> cn], [g \in Groups |-> TRUE],
            [g \in Groups |-> FALSE], {"{}"}, {"k1"}, {"i1"},
            MaxEntriesPair, MaxFaultsPair, MaxRestarts, 0) : cn \in {"", "c1"}}

InitRestart == \E c \in RestartScenarios : InitState(c)

NextRestart ==
  \/ \E d \in cfg.payloads, k \in cfg.keys : Publish(d, EntryOptions(k))
  \/ Tick
  \/ \E l \in Loops : Subscribe(l)
  \/ \E i \in Insts : OnModuleDestroy(i)
  \/ \E i \in Insts : ProcessExit(i)
  \/ \E i \in Insts : Restart(i)
  \/ \E l \in Loops : Step(l)

RestartSpec == InitRestart /\ [][NextRestart]_vars /\ Fairness


\* LifeSpec: one service instance that subscribes twice in the same group
\* without idempotency options, under two consumer names; a subscription may
\* fail, be cancelled with unsubscribe, and the process may shut down and end.
LifeScenarios ==
  {Scenario({"L1", "L2"}, [l \in Loops |-> "i1"], [l \in Loops |-> "gA"],
            [l \in Loops |-> IF l = "L1" THEN "c1" ELSE cn2],
            [g \in Groups |-> FALSE], [g \in Groups |-> FALSE],
            {"{}"}, {""}, {"i1"}, MaxEntriesLife, MaxFaultsLife, 0, 0) :
     cn2 \in {"c2"}}

InitLife == \E c \in LifeScenarios : InitState(c)

NextLife ==
  \/ \E d \in cfg.payloads, k \in cfg.keys : Publish(d, EntryOptions(k))
  \/ Tick
  \/ \E l \in Loops : Subscribe(l)
  \/ \E l \in Loops : SubscribeFails(l)
  \/ \E l \in Loops : Unsubscribe(l)
  \/ \E i \in Insts : OnModuleDestroy(i)
  \/ \E i \in Insts : ProcessExit(i)
  \/ \E l \in Loops : PlainStep(l)

\* A running loop takes its next step: every await of consumeMessages
\* settles (handlers terminate, Redis answers, the blocking read times out).
LifeFairness == \A l \in Loops : WF_vars(PlainStep(l))

LifeSpec == InitLife /\ [][NextLife]_vars /\ LifeFairness

\* TwinSpec: as LifeSpec, but the service subscribes twice under the same
\* consumer name: two subscribe calls for one (stream, group, consumer)
\* triple; or twice without a consumer name, where the two calls get the same
\* default name when they read the same millisecond.
TwinScenarios ==
  {Scenario({"L1", "L2"}, [l \in Loops |-> "i1"], [l \in Loops |-> "gA"],
            [l \in Loops |-> cn],
            [g \in Groups |-> FALSE], [g \in Groups |-> FALSE],
            {"{}"}, {""}, {"i1"}, MaxEntriesLife, MaxFaultsLife, 0, 0) :
     cn \in {"c1", ""}}

InitTwin == \E c \in TwinScenarios : InitState(c)

TwinSpec == InitTwin /\ [][NextLife]_vars /\ LifeFairness

\* DrainSpec: one service instance with one subscription without options;
\* the process shuts down (onModuleDestroy) and ends, and the subscribe call
\* may come before or after the shutdown began.  Two commands may fail, so
\* that one loop can meet a read error twice.
DrainScenarios ==
  {Scenario({"L1"}, [l \in Loops |-> "i1"], [l \in Loops |-> "gA"],
            [l \in Loops |-> "c1"], [g \in Groups |-> FALSE],
            [g \in Groups |-> FALSE], {"{}"}, {""}, {"i1"},
            MaxEntriesDrain, MaxFaultsDrain, 0, 0)}

InitDrain == \E c \in DrainScenarios : InitState(c)

NextDrain ==
  \/ \E d \in cfg.payloads, k \in cfg.keys : Publish(d, EntryOptions(k))
  \/ Tick
  \/ \E l \in Loops : Subscribe(l)
  \/ \E i \in Insts : OnModuleDestroy(i)
  \/ \E i \in Insts : ProcessExit(i)
  \/ \E l \in Loops : PlainStep(l)

DrainSpec == InitDrain /\ [][NextDrain]_vars /\ LifeFairness

\* DecodeSpec: one subscription with a validator and idempotency options on
\* a stream whose entries carry a payload that decodes and is accepted
\* ("{}"), one the validator rejects ("null"), one that is not JSON ("{"), or
\* no 'data' field at all.
DecodeScenarios ==
  {Scenario({"L1"}, [l \in Loops |-> "i1"], [l \in Loops |-> "gA"],
            [l \in Loops |-> "c1"], [g \in Groups |-> TRUE],
            [g \in Groups |-> TRUE], {"{}", "null", "{"}, {"k1"}, {},
            MaxEntriesDecode, MaxFaultsDecode, 0, 0)}

InitDecode == \E c \in DecodeScenarios : InitState(c)

NextDecode ==
  \/ \E d \in cfg.payloads, k \in cfg.keys : Publish(d, EntryOptions(k))
  \/ XaddWithoutData
  \/ Tick
  \/ \E l \in Loops : Subscribe(l)
  \/ \E l \in Loops : Step(l)

DecodeSpec == InitDecode /\ [][NextDecode]_vars

\* ProducerSpec: callers of MessageProducerService.publish and publishBatch;
\* every XADD may be rejected, and a pipeline may give no result.
Batches == UNION {[1..n -> {"a", "b"}] : n \in 0..MaxBatch}

ProducerScenarios ==
  {Scenario({}, [l \in Loops |-> "i1"], [l \in Loops |-> "gA"],
            [l \in Loops |-> "c1"], [g \in Groups |-> FALSE],
            [g \in Groups |-> FALSE], {"a", "b"}, {"", "k1"}, {},
            MaxEntriesProd, MaxFaultsProd, 0, 0)}

InitProducer == \E c \in ProducerScenarios : InitState(c)

NextProducer ==
  \/ \E d \in cfg.payloads, k \in cfg.keys : Publish(d, EntryOptions(k))
  \/ \E d \in cfg.payloads, k \in cfg.keys : PublishFails(d, EntryOptions(k))
  \/ \E m \in Batches, o \in BatchOptionNames : publishBatch(m, BatchOptionsOf(o))

ProducerSpec == InitProducer /\ [][NextProducer]_vars


\* ServiceSpec: callers of TasksService create / update / remove and of
\* OrdersService.create, up to two calls at a time; the database commands
\* and the publish may fail.
ServiceScenarios ==
  {Scenario({}, [l \in Loops |-> "i1"], [l \in Loops |-> "gA"],
            [l \in Loops |-> "c1"], [g \in Groups |-> FALSE],
            [g \in Groups |-> FALSE], {"{}"}, {""}, {},
            MaxEntriesSvc, MaxFaultsSvc, 0, 0)}

InitService == \E c \in ServiceScenarios : InitState(c)

NextService ==
  \/ \E c \in Calls, st \in Statuses : TasksCreate(c, st)
  \/ \E c \in Calls, id \in 1..MaxTasks, st \in Statuses \cup {""} : TasksUpdate(c, id, st)
  \/ \E c \in Calls, id \in 1..MaxTasks : TasksRemove(c, id)
  \/ \E c \in Calls : prismaTaskUpdate(c)
  \/ \E c \in Calls : prismaTaskDelete(c)
  \/ \E c \in Calls : OrdersCreate(c)
  \/ \E c \in Calls : publishEvent(c)

ServiceSpec == InitService /\ [][NextService]_vars


\* ------------------------------------------------------------ claims
\* The processing of one delivery: <<group, entry, delivery count>>.
ProcId(l) == <<GroupOf(l), loop[l].cur, loop[l].dcount>>

\* Dead letter entries appended for one delivery of an entry in a group.
DlqEntriesOf(g, id, d) ==
  {j \in 1..Len(dlq) : /\ dlq[j].originalMessageId = IdStr[id]
                       /\ dlq[j].group = g
                       /\ dlq[j].delivery = d}

\* The loop is past its last retry: dead-lettering, acknowledging after it,
\* or returning from it.
InDlqStage(l) ==
  \/ loop[l].pc \in {"p_dlq", "p_dlqack"}
  \/ loop[l].pc = "p_ret" /\ loop[l].outcome = "dlq"

\* The ledger key of an entry under the default key field, as
\* getIdempotencyKey derives it: the value that follows the first occurrence
\* of the key field in the entry's fields when there is one and it is not
\* empty, else the entry id.
KeyFieldValues(id) ==
  {stream[id][i + 1] : i \in {j \in 1..(Len(stream[id]) - 1) :
                                 stream[id][j] = DefaultKeyField
                                 /\ \A h \in 1..(j - 1) : stream[id][h] # DefaultKeyField}}

LedgerKeyOf(id) ==
  IF KeyFieldValues(id) \in {{}, {""}}
  THEN <<"idempotency", StreamName, IdStr[id]>>
  ELSE <<"idempotency", StreamName, CHOOSE v \in KeyFieldValues(id) : TRUE>>

C3_State ==
  \A l \in Loops :
    /\ loop[l].calls <= 1 + maxRetries
    /\ InDlqStage(l) /\ loop[l].hfails = loop[l].retryCount + 1
         => /\ loop[l].calls = 1 + maxRetries
            /\ loop[l].err = <<"handler", 1 + maxRetries>>
    /\ (loop[l].pc = "p_dlqack" \/ (loop[l].pc = "p_ret" /\ loop[l].outcome = "dlq"))
         /\ ~loop[l].dlqFail
         => /\ Cardinality(DlqEntriesOf(GroupOf(l), loop[l].cur, loop[l].dcount)) = 1
            /\ loop[l].dlqIdx \in DlqEntriesOf(GroupOf(l), loop[l].cur, loop[l].dcount)
            /\ dlq[loop[l].dlqIdx].error = loop[l].err
            /\ dlq[loop[l].dlqIdx].fields = stream[loop[l].cur]

C3_Step ==
  \A l \in Loops :
    InDlqStage(l) => /\ loop'[l].calls <= loop[l].calls
                     /\ loop'[l].pc \notin {"p_handler", "p_catch"}

\* C3 (bounded retry): one per-entry processing invokes the handler at most
\* 1 + maxRetries = 4 times; when every failure of the processing was a
\* handler failure, the processing reaches the dead letter step after exactly
\* four invocations with the fourth failure as its error; the dead letter
\* step appends (unless the XADD itself fails) exactly one entry for the
\* processing, carrying the original fields, the original id and that last
\* error; and from the dead letter step on the handler is not invoked again.
C3_BoundedRetry == [](C3_State) /\ [][C3_Step]_vars

\* A handler failed four times and the entry was dead-lettered and acknowledged.
C3_Witness ==
  \E l \in Loops :
    /\ loop[l].pc = "p_ret" /\ loop[l].outcome = "dlq"
    /\ loop[l].hfails = 4 /\ loop[l].calls = 4
    /\ loop[l].dlqIdx > 0
    /\ dlq[loop[l].dlqIdx].error = <<"handler", 4>>

\* C6 (dead letter failure does not block the acknowledgment): a failed
\* XADD to the dead letter stream is swallowed, so processing goes on to the
\* XACK and its return; and when the processing returns after its retries
\* were exhausted, the entry is no longer in the group's pending list,
\* whether the dead letter entry was appended or not.
C6_AckRegardlessOfDlq ==
  \A l \in Loops :
    /\ loop[l].dlqFail => loop[l].pc \in {"p_dlqack", "p_ret"}
    /\ loop[l].pc = "p_ret" /\ loop[l].outcome = "dlq"
         => /\ loop[l].cur \notin DOMAIN pel[GroupOf(l)]
            /\ loop[l].dlqFail => DlqEntriesOf(GroupOf(l), loop[l].cur, loop[l].dcount) = {}

\* The dead letter append failed and the entry was acknowledged all the same.
C6_Witness ==
  \E l \in Loops :
    /\ loop[l].pc = "p_ret" /\ loop[l].outcome = "dlq"
    /\ loop[l].dlqFail
    /\ loop[l].cur \notin DOMAIN pel[GroupOf(l)]
    /\ ~DeadLettered(loop[l].cur)

\* C8 (batch ordering): with a single subscribed consumer, as long as no
\* error has been thrown out of processMessage (no failed XACK after
\* dead-lettering), while an entry is in per-entry processing every earlier
\* entry of the stream has been acknowledged (its processing, retries and
\* dead-lettering included, is over) and the handler has not been invoked for
\* any later entry: handler invocations follow the order of appending.
C8_BatchOrdering ==
  \A l \in Loops :
    loop[l].cur # 0 /\ escaped = {}
      => /\ \A e \in 1..(loop[l].cur - 1) : Acked(GroupOf(l), e)
         /\ \A x \in invoked : x[1] = GroupOf(l) => x[2] <= loop[l].cur

\* The third of three entries is being handled after the first two were
\* finished, one by its handler and one by the dead letter queue.
C8_Witness ==
  \E l \in Loops :
    /\ loop[l].cur = 3 /\ loop[l].pc = "p_ack"
    /\ Len(dlq) = 1
    /\ Acked(GroupOf(l), 1) /\ Acked(GroupOf(l), 2)
    /\ escaped = {}

\* C9 (k failures, then success): when a processing returns after the handler
\* succeeded, and no Redis command of the processing failed, the handler
\* failed k <= 3 times before, was invoked exactly k + 1 times, the waits were
\* the k back-off delays, the entry is acknowledged, nothing was appended to
\* the dead letter stream for it, and with idempotency options the ledger
\* record was written under idempotency:<stream>:<key>.
C9_RetryThenSuccess ==
  \A l \in Loops :
    loop[l].pc = "p_ret" /\ loop[l].outcome = "done" /\ ~loop[l].pfault
      => /\ loop[l].hfails <= maxRetries
         /\ loop[l].calls = loop[l].hfails + 1
         /\ loop[l].retryCount = loop[l].hfails
         /\ Len(loop[l].delays) = loop[l].hfails
         /\ Acked(GroupOf(l), loop[l].cur)
         /\ DlqEntriesOf(GroupOf(l), loop[l].cur, loop[l].dcount) = {}
         /\ cfg.idem[GroupOf(l)]
              => /\ loop[l].ikey = LedgerKeyOf(loop[l].cur)
                 /\ <<GroupOf(l), LedgerKeyOf(loop[l].cur)>> \in marked

\* Two failures, a third invocation that succeeds, and a record under
\* idempotency:tasks:created:k1.
C9_Witness ==
  \E l \in Loops :
    /\ loop[l].pc = "p_ret" /\ loop[l].outcome = "done" /\ ~loop[l].pfault
    /\ loop[l].hfails = 2 /\ loop[l].calls = 3
    /\ loop[l].delays = <<1000, 2000>>
    /\ <<"idempotency", "tasks:created", "k1">> \in ledger
    /\ loop[l].ikey = <<"idempotency", "tasks:created", "k1">>
    /\ Acked(GroupOf(l), loop[l].cur)

\* C10 (duplicate short-circuit): with idempotency options, the handler is
\* never about to be invoked for an entry while a ledger record exists under
\* the entry's key (the key field's value, or the entry id when the field is
\* absent or empty); a processing that returns as a duplicate without a
\* failed Redis command has acknowledged the entry with no handler
\* invocation, no back-off wait and retryCount still 0; and without
\* idempotency options the ledger is neither read nor written.
C10_DuplicateShortCircuit ==
  \A l \in Loops :
    /\ cfg.idem[GroupOf(l)] /\ loop[l].pc = "p_handler"
         => LedgerKeyOf(loop[l].cur) \notin ledger
    /\ loop[l].pc = "p_dupack" => loop[l].ikey = LedgerKeyOf(loop[l].cur)
    /\ loop[l].pc = "p_ret" /\ loop[l].outcome = "dup" /\ ~loop[l].pfault
         => /\ loop[l].calls = 0
            /\ loop[l].retryCount = 0
            /\ loop[l].delays = <<>>
            /\ Acked(GroupOf(l), loop[l].cur)
            /\ ProcId(l) \in skipped
            /\ ProcId(l) \notin invoked
    /\ ~cfg.idem[GroupOf(l)]
         => /\ loop[l].reads = 0
            /\ loop[l].ikey = NoKey
            /\ ledger = {}
            /\ marked = {}

\* A second entry with the key k1 was acknowledged as a duplicate without a
\* handler invocation.
C10_Witness ==
  \E l \in Loops :
    /\ cfg.idem[GroupOf(l)]
    /\ loop[l].pc = "p_ret" /\ loop[l].outcome = "dup"
    /\ loop[l].cur = 2 /\ loop[l].calls = 0
    /\ LedgerKeyOf(2) = <<"idempotency", StreamName, "k1">>
    /\ LedgerKeyOf(2) \in ledger
    /\ Acked(GroupOf(l), 2)

\* The subscription of loop l is active: its process runs, is not shutting
\* down, and the loop's consumer key is still registered.
ActiveSub(l) ==
  /\ up[InstOf(l)]
  /\ ~isShuttingDown[InstOf(l)]
  /\ loop[l].pc \notin {"none", "stopped"}
  /\ ConsumerKey(GroupOf(l), loop[l].name) \in consumers[InstOf(l)]

\* The handler has returned successfully in the processing loop l is in.
HandlerSucceeded(l) == loop[l].cur # 0 /\ loop[l].calls > loop[l].hfails

\* C1 (at-least-once): every entry appended to the stream while group gA has
\* an active subscription (that of L2, whose process never stops) is
\* eventually acknowledged in gA or appended to the dead letter stream.
C1_AtLeastOnce ==
  \A id \in 1..MaxEntriesPair :
    (Len(stream) >= id /\ ActiveSub("L2"))
      ~> (Acked("gA", id) \/ DeadLettered(id))

\* C2 (idempotent suppression): in a group subscribed with idempotency
\* options, two consumers are never both in a processing whose handler has
\* returned successfully for entries that carry the same ledger key: the
\* handler runs for at most one of them.
C2_IdempotentSuppression ==
  \A l1, l2 \in Loops :
    /\ l1 # l2
    /\ GroupOf(l1) = GroupOf(l2)
    /\ cfg.idem[GroupOf(l1)]
    /\ HandlerSucceeded(l1)
    /\ HandlerSucceeded(l2)
    => LedgerKeyOf(loop[l1].cur) # LedgerKeyOf(loop[l2].cur)

\* C4 (reclaim liveness): an entry left pending by consumer c1, whose process
\* has ended, and idle for the claim threshold is eventually acknowledged or
\* dead-lettered while consumer c2 of the same group stays active.
C4_ReclaimLiveness ==
  \A id \in 1..MaxEntriesPair :
    (/\ id \in DOMAIN pel["gA"]
     /\ pel["gA"][id].owner = <<"c1", 0>>
     /\ pel["gA"][id].idle >= MinIdleMs
     /\ ~up["i1"]
     /\ ActiveSub("L2"))
      ~> (Acked("gA", id) \/ DeadLettered(id))

\* C5 (restart recovery): an entry that is pending in the group once the
\* service has been started again is eventually acknowledged or dead-lettered,
\* unless the restarted service is itself shut down first.
C5_RestartRecovery ==
  \A id \in 1..MaxEntriesPair :
    (id \in DOMAIN pel["gA"] /\ restarts >= 1 /\ ActiveSub("L1"))
      ~> (Acked("gA", id) \/ DeadLettered(id) \/ ~ActiveSub("L1"))

\* C7 (suppression is scoped to the group): a group acknowledges a delivery
\* as a duplicate only when a ledger record was written under the entry's key
\* by that same group.
C7_GroupScopedSuppression ==
  \A x \in skipped : <<x[1], LedgerKeyOf(x[2])>> \in marked

\* C11 (back-off): the waits of one processing are, in order, 2^n * 1000 ms
\* for n = 0, 1, 2 (1000, 2000, 4000 ms), one per retry made so far, so each
\* wait is twice the one before; there are never more than maxRetries of
\* them, and a processing that is past its last failed attempt (dead letter
\* step) has waited exactly three times: no wait follows the final failure.
C11_Backoff ==
  \A l \in Loops :
    /\ Len(loop[l].delays) = loop[l].retryCount
    /\ Len(loop[l].delays) <= maxRetries
    /\ \A n \in 0..(Len(loop[l].delays) - 1) :
         loop[l].delays[n + 1] = (2 ^ n) * 1000
    /\ \A n \in 1..(Len(loop[l].delays) - 1) :
         loop[l].delays[n + 1] = 2 * loop[l].delays[n]
    /\ InDlqStage(l) => Len(loop[l].delays) = maxRetries

\* Four failed attempts with the waits 1000, 2000 and 4000 ms between them,
\* and the dead letter step reached without a further wait.
C11_Witness ==
  \E l \in Loops :
    /\ loop[l].pc = "p_dlq"
    /\ loop[l].calls = 4 /\ loop[l].hfails = 4
    /\ loop[l].delays = <<1000, 2000, 4000>>

\* The waits the architecture guide documents, and the waits of the code.
DocumentedWaits == <<100, 400, 900>>
CodeWaits == <<1000, 2000, 4000>>

\* C12 as documented (architecture guide): the waits after the first, second
\* and third failed attempt are 100, 400 and 900 ms.
C12_DocumentedWaits ==
  \A l \in Loops :
    \A k \in 1..Len(loop[l].delays) : loop[l].delays[k] = DocumentedWaits[k]

\* C12 (amended): the waits after the first, second and third failed attempt
\* are 1000, 2000 and 4000 ms, and an entry is moved to the dead letter
\* stream only after the fourth failed attempt: every dead letter entry of a
\* processing was appended after three retries and all three waits.
C12_RetryWaits ==
  \A l \in Loops :
    /\ \A k \in 1..Len(loop[l].delays) : loop[l].delays[k] = CodeWaits[k]
    /\ loop[l].pc \in {"p_begin", "p_handler", "p_catch"} /\ loop[l].cur # 0
         => DlqEntriesOf(GroupOf(l), loop[l].cur, loop[l].dcount) = {}
    /\ loop[l].cur # 0 /\ DlqEntriesOf(GroupOf(l), loop[l].cur, loop[l].dcount) # {}
         => /\ loop[l].retryCount = 3
            /\ loop[l].delays = CodeWaits

\* An entry was moved to tasks:created:dlq after four failed handler calls
\* separated by waits of 1000, 2000 and 4000 ms.
C12_Witness ==
  \E l \in Loops :
    /\ loop[l].pc = "p_dlqack"
    /\ loop[l].hfails = 4
    /\ loop[l].delays = CodeWaits
    /\ DlqEntriesOf(GroupOf(l), loop[l].cur, loop[l].dcount) # {}

\* C13 (one consumer per entry): in a group whose consumers have distinct
\* names, all handler invocations for one entry are made by one consumer,
\* whatever the interleaving of reads and reclaims.
C13_OneConsumerPerEntry ==
  \A x, y \in handledBy :
    x[1] = y[1] /\ x[2] = y[2] => x[3] = y[3]

\* Consumer c1 handled entry 1 in its first delivery and again after
\* reclaiming it, while consumer c2 handled entry 2.
C13_Witness ==
  /\ <<"gA", 1, 1>> \in invoked
  /\ <<"gA", 1, 2>> \in invoked
  /\ <<"gA", 1, <<"c1", 0>>>> \in handledBy
  /\ <<"gA", 2, <<"c2", 0>>>> \in handledBy

\* The number of the stream entry that has the id `id`.
IdNum(id) == CHOOSE n \in 1..Len(IdStr) : IdStr[n] = id

PipelineFailed == <<"Pipeline execution failed", 0>>

C14_State ==
  pubResult.op = "publish"
    => /\ pubResult.xadds = 1
       /\ pubResult.threw => pubResult.ids = <<>> /\ pubResult.error # <<>>
       /\ ~pubResult.threw
            => /\ Len(pubResult.ids) = 1
               /\ IdNum(pubResult.ids[1]) <= Len(stream)
               /\ DataOf(stream[IdNum(pubResult.ids[1])]) = pubResult.args[1]

C14_Step ==
  pubResult'.op = "publish"
    => /\ faults' # faults
            => /\ pubResult'.threw
               /\ stream' = stream
       /\ stream' # stream
            => /\ ~pubResult'.threw
               /\ faults' = faults
               /\ Len(stream') = Len(stream) + 1
               /\ pubResult'.ids = <<IdStr[Len(stream')]>>

\* C14 (publish): a publish call issues exactly one XADD; when it succeeds
\* one entry is appended and its id is returned; when it is rejected the
\* call throws, returns no id and leaves the stream as it was (no retry).
C14_PublishOnce == [](C14_State) /\ [][C14_Step]_vars

\* A publish call threw after an earlier one had appended an entry.
C14_Witness ==
  /\ pubResult.op = "publish"
  /\ pubResult.threw
  /\ pubResult.ids = <<>>
  /\ Len(stream) >= 1

\* C15 (publishBatch): one XADD per payload; the call throws exactly when a
\* command failed or exec() gave no result, and then returns no ids, the
\* error of a failed command being that of the first one in submission
\* order; otherwise it returns one id per payload, in submission order, id i
\* being the id of the entry that carries payload i.
C15_PublishBatch ==
  pubResult.op = "publishBatch"
    => /\ pubResult.xadds = Len(pubResult.args)
       /\ pubResult.threw
            <=> (pubResult.failed # {} \/ pubResult.error = PipelineFailed)
       /\ pubResult.threw => pubResult.ids = <<>>
       /\ pubResult.threw /\ pubResult.error # PipelineFailed
            => /\ pubResult.error[1] = "xadd"
               /\ pubResult.error[2] \in pubResult.failed
               /\ \A i \in pubResult.failed : pubResult.error[2] <= i
       /\ ~pubResult.threw
            => /\ Len(pubResult.ids) = Len(pubResult.args)
               /\ \A i \in 1..Len(pubResult.ids) :
                    /\ IdNum(pubResult.ids[i]) <= Len(stream)
                    /\ DataOf(stream[IdNum(pubResult.ids[i])]) = pubResult.args[i]
               /\ \A i, j \in 1..Len(pubResult.ids) :
                    i < j => IdNum(pubResult.ids[i]) < IdNum(pubResult.ids[j])

\* A batch of the payloads a, b was appended after an earlier entry and its
\* ids came back in submission order.
C15_Witness ==
  /\ pubResult.op = "publishBatch"
  /\ ~pubResult.threw
  /\ pubResult.args = <<"a", "b">>
  /\ pubResult.ids = <<"2-0", "3-0">>
  /\ DataOf(stream[2]) = "a" /\ DataOf(stream[3]) = "b"

\* The primary write of a service call is in the store st.
WriteInStore(call, st) ==
  CASE call.op \in {"tasks.create", "tasks.update"} ->
         /\ call.record.id \in DOMAIN st.tasks
         /\ st.tasks[call.record.id] = call.record
    [] call.op = "tasks.remove" -> call.record.id \notin DOMAIN st.tasks
    [] call.op = "orders.create" ->
         /\ call.record.id \in DOMAIN st.orders
         /\ st.orders[call.record.id] = call.record
    [] OTHER -> FALSE

C16_State ==
  \A c \in Calls :
    LET call == svcResult[c]
    IN /\ call.phase = "wrote" => call.wrote /\ call.record # NoRecord
       /\ call.phase = "returned" /\ call.wrote
            => /\ ~call.threw
               /\ call.record # NoRecord
               /\ ~call.published <=> call.pubThrew

C16_Step ==
  /\ (stream' # stream \/ otherStreams' # otherStreams \/ pubResult' # pubResult)
       => \E c \in Calls : svcResult[c].phase = "wrote" /\ svcResult'[c].phase = "returned"
  /\ \A c \in Calls :
       \* the write is in the store when the call turns to its publish
       /\ svcResult[c].phase # "wrote" /\ svcResult'[c].phase = "wrote"
            => WriteInStore(svcResult'[c], store')
       \* the publish step, failed or not, leaves the store alone and
       \* returns the written record
       /\ svcResult[c].phase = "wrote" /\ svcResult'[c].phase = "returned"
            => /\ store' = store
               /\ svcResult'[c].record = svcResult[c].record
               /\ ~svcResult'[c].threw
               /\ svcResult'[c].pubThrew <=> pubResult'.threw

\* C16: a publish failure neither blocks nor undoes the primary write. In
\* TasksService create / update / remove and OrdersService.create the store
\* write is done before the publish is attempted, the publish step leaves
\* the store as it is, and the call returns the written record without
\* throwing whether the publish succeeded or threw.
C16_WriteSurvivesPublishFailure == [](C16_State) /\ [][C16_Step]_vars

\* A task was created, the publish of its event threw, and create returned
\* the task, which is in the store; nothing was appended to the stream.
C16_Witness ==
  /\ svcResult["A"].op = "tasks.create"
  /\ svcResult["A"].phase = "returned"
  /\ svcResult["A"].wrote /\ ~svcResult["A"].published
  /\ svcResult["A"].pubThrew
  /\ pubResult.threw
  /\ ~svcResult["A"].threw
  /\ svcResult["A"].record = [id |-> 1, status |-> "PENDING"]
  /\ store.tasks[1] = svcResult["A"].record
  /\ stream = <<>>

\* The registry key of loop l's subscription.
KeyOfLoop(l) == ConsumerKey(GroupOf(l), loop[l].name)

\* A subscribe call for loop l returned normally in this step: its Delivery
\* Loop was started.
Subscribed(l) == loop[l].pc = "none" /\ loop'[l].pc \in {"pending", "stopped"}

C17_Step ==
  /\ subErrors' # subErrors
       => /\ consumers' = consumers
          /\ loop' = loop
          /\ groups' = groups
  /\ \A l \in Loops :
       Subscribed(l)
         => /\ subErrors' = subErrors
            /\ ConsumerKey(GroupOf(l), loop'[l].name) \in consumers'[InstOf(l)]
            /\ GroupOf(l) \in groups'
            /\ GroupOf(l) \in groups
                 => /\ groups' = groups
                    /\ lastDelivered' = lastDelivered
                    /\ pel' = pel

\* C17: subscribe ensures the group idempotently. When the group already
\* exists (BUSYGROUP) the call goes on: the group, its last-delivered id and
\* its pending list are left as they are, the registration is recorded and
\* the Delivery Loop is started. When group creation fails with another
\* error the error reaches the caller, the registry is unchanged and no
\* Delivery Loop is started.
C17_SubscribeEnsuresGroup == [][C17_Step]_vars

\* One subscribe call threw, and both subscriptions are registered and
\* running in the same group: the second of them found the group existing.
C17_Witness ==
  /\ subErrors # {}
  /\ groups = {"gA"}
  /\ \A l \in Loops :
       /\ loop[l].pc \notin {"none", "stopped"}
       /\ ConsumerKey(GroupOf(l), loop[l].name) \in consumers[InstOf(l)]
  /\ loop["L1"].name # loop["L2"].name

\* The subscription of loop l is registered.
Registered(l) == KeyOfLoop(l) \in consumers[InstOf(l)]

\* Loop l is in per-entry processing.
InFlight(l) == Running(l) /\ loop[l].cur # 0

C18_Step ==
  \A l \in Loops :
    \* unsubscribe does nothing to a loop
    /\ (isShuttingDown' = isShuttingDown /\ up' = up /\ consumers' # consumers
          /\ consumers'[InstOf(l)] \subseteq consumers[InstOf(l)])
         => loop' = loop
    \* a new cycle starts only for a registered subscription
    /\ loop[l].pc # "pending" /\ loop'[l].pc = "pending"
         => ConsumerKey(GroupOf(l), loop'[l].name) \in consumers'[InstOf(l)]
    \* the loop stops only where the while condition is evaluated: at a
    \* cycle boundary, or in a subscribe call made during shutdown
    /\ loop[l].pc # "stopped" /\ loop'[l].pc = "stopped"
         => \/ loop[l].pc = "check"
            \/ loop[l].pc = "none" /\ isShuttingDown[InstOf(l)]

\* C18: unsubscribe is cooperative. The call only removes the registration;
\* the loop of that subscription starts a new cycle only while the
\* registration is present, stops only at a cycle boundary, and, unless the
\* same triple is subscribed again or the process ends, eventually stops;
\* an entry in processing when the registration is removed is processed to
\* the end.
C18_CooperativeUnsubscribe ==
  /\ [][C18_Step]_vars
  /\ \A l \in Loops :
       (Running(l) /\ ~Registered(l))
         ~> (loop[l].pc = "stopped" \/ ~up[InstOf(l)] \/ Registered(l))
  /\ \A l \in Loops :
       (InFlight(l) /\ ~Registered(l)) ~> (~InFlight(l) \/ Registered(l))

\* The subscription of loop L1 was cancelled while its handler was running
\* on entry 1; the process is not shutting down.
C18_Witness ==
  /\ ~isShuttingDown["i1"] /\ up["i1"]
  /\ loop["L1"].pc = "p_handler" /\ loop["L1"].cur = 1
  /\ ~Registered("L1")

C19_Step ==
  \A l \in Loops :
    LET i == InstOf(l)
    IN \* onModuleDestroy empties the registry and cancels nothing
       /\ ~isShuttingDown[i] /\ isShuttingDown'[i]
            => consumers'[i] = {} /\ loop' = loop /\ pel' = pel
       \* no new cycle starts
       /\ isShuttingDown[i] /\ loop'[l].pc = "pending" => loop[l].pc = "pending"
       \* the loop stops only where the while condition is evaluated: at a
       \* cycle boundary, or in a subscribe call made during shutdown
       /\ loop[l].pc # "stopped" /\ loop'[l].pc = "stopped"
            => loop[l].pc = "check" \/ (loop[l].pc = "none" /\ isShuttingDown[i])
       \* the rest of the batch is processed
       /\ (isShuttingDown[i] /\ up'[i] /\ loop[l].pc = "p_ret"
             /\ loop[l].origin = "read" /\ loop[l].batch # <<>>
             /\ loop'[l] # loop[l])
            => loop'[l].pc = "p_begin" /\ loop'[l].cur = Head(loop[l].batch)
       \* the end of the process leaves the pending list as it is
       /\ up[i] /\ ~up'[i] => pel' = pel /\ lastDelivered' = lastDelivered

\* C19: shutdown drain. onModuleDestroy sets the flag and empties the
\* registry; from then on no loop starts a new cycle, also not the loop of a
\* subscription made after the shutdown began. A loop is not cancelled: it goes on with the
\* entry in processing and the rest of its batch, stops at the cycle
\* boundary only, and does stop unless the process ends first. When the
\* process ends, the entries it left unacknowledged stay in the pending list.
C19_ShutdownDrain ==
  /\ [][C19_Step]_vars
  /\ \A l \in Loops :
       (isShuttingDown[InstOf(l)] /\ Running(l))
         ~> (loop[l].pc = "stopped" \/ ~up[InstOf(l)])

\* The process shut down and ended while its loop had handled entry 1 of a
\* batch of two and had called the handler for entry 2: entry 2 is still
\* pending for the consumer.
C19_Witness ==
  /\ isShuttingDown["i1"] /\ ~up["i1"]
  /\ lastDelivered["gA"] = 2
  /\ Acked("gA", 1)
  /\ <<"gA", 2, <<"c1", 0>>>> \in handledBy
  /\ 2 \in DOMAIN pel["gA"] /\ pel["gA"][2].owner = <<"c1", 0>>

C20_State ==
  \A l \in Loops :
    \* the read of a cycle comes after the cycle's pending entries
    /\ loop[l].pc = "read" => loop[l].pendq = <<>> /\ loop[l].cur = 0
    /\ loop[l].cur # 0 /\ loop[l].origin = "read" => loop[l].pendq = <<>>
    \* no batch is outstanding while pending entries are dispatched
    /\ (loop[l].pc \in {"pending", "claim"}
          \/ (loop[l].cur # 0 /\ loop[l].origin = "reclaim"))
         => loop[l].batch = <<>>

C20_Step ==
  \A l \in Loops :
    \* processMessage is called for an entry when the call for the entry
    \* before it has returned
    /\ (up'[InstOf(l)] /\ loop'[l].cur # 0 /\ loop'[l].cur # loop[l].cur)
         => loop[l].cur = 0 \/ loop[l].pc = "p_ret"
    \* a reclaimed entry is dispatched in the step that claims it
    /\ (loop[l].pc = "claim" /\ loop[l].pendq # <<>>
          /\ Head(loop[l].pendq) \in DOMAIN pel[GroupOf(l)]
          /\ pel'[GroupOf(l)][Head(loop[l].pendq)]
               # pel[GroupOf(l)][Head(loop[l].pendq)]
          /\ loop'[l] # loop[l])
         => loop'[l].cur = Head(loop[l].pendq) /\ loop'[l].origin = "reclaim"

\* C20: within one Delivery Loop processing is sequential. processMessage
\* is called for an entry only when the loop has no entry in processing or
\* the call for the previous entry has returned; every entry the loop
\* claims is dispatched at once; and the blocking read of a cycle is issued
\* only when the cycle's list of pending entries is exhausted and no entry
\* is in processing.
C20_SequentialLoop == [](C20_State) /\ [][C20_Step]_vars

\* After a restart under the same consumer name the loop reclaimed the two
\* entries its predecessor left pending: the first was handled on its second
\* delivery and is acknowledged, the second is with the handler, and the
\* list of pending entries is exhausted.
C20_Witness ==
  /\ restarts = 1
  /\ <<"gA", 1, 2>> \in invoked
  /\ loop["L1"].origin = "reclaim" /\ loop["L1"].cur = 2
  /\ loop["L1"].pc = "p_handler"
  /\ loop["L1"].pendq = <<>>
  /\ Acked("gA", 1)
  /\ pel["gA"][2].count = 2

\* The error of every loop-level catch was logged and followed by the pause.
PausedEveryTime(l) ==
  \A k \in 1..Len(loop[l].pauses) :
    loop[l].pauses[k] = [logged |-> TRUE, wait |-> 5000]

\* C21 as stated: every error of the read phase is logged and followed by
\* a pause of 5000 ms.
C21_AlwaysPauses == \A l \in Loops : PausedEveryTime(l)

C21_State ==
  \A l \in Loops : \A k \in 1..Len(loop[l].pauses) :
    \/ loop[l].pauses[k] = [logged |-> TRUE, wait |-> 5000]
    \/ /\ loop[l].pauses[k] = [logged |-> FALSE, wait |-> 0]
       /\ isShuttingDown[InstOf(l)]

C21_Step ==
  \A l \in Loops :
    LET i == InstOf(l)
    IN \* a failed read ends neither the loop nor the process
       /\ (loop[l].pc = "read" /\ faults' > faults /\ loop'[l] # loop[l])
            => loop'[l].pc = "errpause" /\ up' = up
       \* the catch: one pause, 5000 ms unless shutting down, then the
       \* loop condition
       /\ (loop[l].pc = "errpause" /\ loop'[l] # loop[l] /\ up'[i])
            => /\ loop'[l].pc = "check"
               /\ Len(loop'[l].pauses) = Len(loop[l].pauses) + 1
               /\ ~isShuttingDown[i]
                    => loop'[l].pauses[Len(loop'[l].pauses)]
                         = [logged |-> TRUE, wait |-> 5000]
       \* a registered subscription goes on with the pending entries
       /\ (loop[l].pc = "check" /\ loop'[l] # loop[l] /\ up'[i]
             /\ ~isShuttingDown[i]
             /\ ConsumerKey(GroupOf(l), loop[l].name) \in consumers[i])
            => loop'[l].pc = "pending"

\* C21, amended: an error of the read phase ends neither the loop nor the
\* process. Unless the service is shutting down it is logged and followed
\* by a pause of 5000 ms, the same on every occurrence, after which a
\* registered subscription resumes with its pending entries; while the
\* service is shutting down it is neither logged nor followed by a pause.
C21_ReadErrorPause == [](C21_State) /\ [][C21_Step]_vars

\* Two blocking reads of the same loop failed, one after the other; each
\* time the loop logged the error and paused 5000 ms, and it is back at its
\* pending entries.
C21_Witness ==
  /\ ~isShuttingDown["i1"] /\ up["i1"]
  /\ loop["L1"].pauses = <<[logged |-> TRUE, wait |-> 5000],
                            [logged |-> TRUE, wait |-> 5000]>>
  /\ loop["L1"].pc = "pending"
  /\ faults = 2
  /\ escaped = {}

\* Loop l is in its reclaim phase: at the pending query, at a claim, or in
\* the processing of a reclaimed entry.
InReclaim(l) ==
  \/ loop[l].pc \in {"pending", "claim"}
  \/ loop[l].cur # 0 /\ loop[l].origin = "reclaim"

C22_Step ==
  \A l \in Loops :
    \* the reclaim phase is left for the read only: no pause, no stop
    /\ (InReclaim(l) /\ loop'[l] # loop[l] /\ up'[InstOf(l)])
         => /\ loop'[l].pc \notin {"errpause", "stopped", "check", "none"}
            /\ loop'[l].pauses = loop[l].pauses
            /\ (loop'[l].pc = "read"
                  \/ loop'[l].pc \in {"pending", "claim"}
                  \/ (loop'[l].cur # 0 /\ loop'[l].origin = "reclaim"))
    \* an error of the pending query or of a claim, or one thrown out of the
    \* processing of a reclaimed entry, leads to the read of the same cycle
    /\ (InReclaim(l) /\ loop[l].pc \in {"pending", "claim", "p_dlqack"}
          /\ faults' > faults /\ loop'[l] # loop[l])
         => /\ loop'[l].pc = "read"
            /\ loop'[l].cur = 0
            /\ loop'[l].pendq = <<>>

\* C22: an error raised in the reclaim phase (by the pending query, by a
\* claim, or thrown out of the processing of a reclaimed entry) is swallowed
\* there: the loop goes on to the read of the same cycle, without the error
\* pause and without stopping.
C22_ReclaimErrorsSwallowed == [][C22_Step]_vars

\* The acknowledge that follows the dead-lettering of a reclaimed entry
\* failed: the loop is at the read of that cycle and has never paused.
C22_Witness ==
  /\ loop["L1"].pc = "read"
  /\ loop["L1"].pauses = <<>>
  /\ \E e \in escaped : e[3] = 2
  /\ faults = 1
  /\ up["i1"]

\* C23: a log-service failure during per-entry processing (in the ledger
\* lookup, the acknowledge or the ledger write) is not handled per entry: the
\* retry counter of an entry counts handler failures only, and so do its
\* back-off waits (the payloads of this specification always decode and no
\* validator is supplied).
C23_ConnectionFailureNotPerEntry ==
  \A l \in Loops :
    loop[l].cur # 0
      => /\ loop[l].retryCount <= loop[l].hfails
         /\ Len(loop[l].delays) <= loop[l].hfails

\* C24 as stated: within the processing of one entry the payload is decoded,
\* validated and looked up in the ledger once, however often the handler is
\* retried.
C24_DecodedOnce ==
  \A l \in Loops :
    loop[l].cur # 0
      => /\ loop[l].decodes <= 1
         /\ loop[l].validations <= 1
         /\ loop[l].reads <= 1

\* C24, amended: a retry runs processMessage again from its first step. At
\* every point of an attempt past the decoding, the payload of an entry with
\* a 'data' field has been decoded once per attempt; a payload that decodes
\* has been given to the validator once per attempt; and, when no Redis
\* command failed, the ledger has been read once per attempt that reached
\* the handler or the duplicate branch.
C24_RetryFromTheTop ==
  \A l \in Loops :
    (loop[l].cur # 0 /\ loop[l].pc # "p_begin")
      => LET fields == stream[loop[l].cur]
             attempts == loop[l].retryCount + 1
         IN /\ HasData(fields) => loop[l].decodes = attempts
            /\ (HasData(fields) /\ DataOf(fields) # "{"
                  /\ cfg.validate[GroupOf(l)])
                 => loop[l].validations = attempts
            /\ (loop[l].pc \in {"p_handler", "p_ack", "p_mark", "p_dupack"}
                  /\ loop[l].ikey # NoKey /\ ~loop[l].pfault)
                 => loop[l].reads = attempts

\* The handler failed once and is about to be called again: the payload was
\* decoded, validated and looked up in the ledger a second time.
C24_Witness ==
  /\ loop["L1"].pc = "p_handler"
  /\ loop["L1"].retryCount = 1 /\ loop["L1"].hfails = 1
  /\ loop["L1"].decodes = 2
  /\ loop["L1"].validations = 2
  /\ loop["L1"].reads = 2

\* Entry id has no 'data' field, or a payload that is not the one payload
\* of DecodeSpec that decodes and passes the validator.
Undeliverable(id) ==
  \/ \A i \in 1..Len(stream[id]) : stream[id][i] # "data"
  \/ stream[id][2] # "{}"

\* C25: for an entry without a 'data' field or with a payload the validator
\* rejects (or that does not decode), the handler is never called; each
\* failed attempt counts against the retry counter of the entry, with the
\* usual waits; the processing ends with the entry acknowledged and, unless
\* the write to the dead letter stream failed, dead-lettered; so such an
\* entry is never acknowledged without a trace when Redis did not fail.
C25_InvalidEntriesDeadLettered ==
  /\ \A e \in invoked : ~Undeliverable(e[2])
  /\ \A l \in Loops :
       (loop[l].cur # 0 /\ Undeliverable(loop[l].cur))
         => /\ loop[l].calls = 0
            /\ loop[l].pc \notin {"p_handler", "p_ack", "p_mark", "p_dupack"}
            /\ Len(loop[l].delays) = loop[l].retryCount
            /\ loop[l].pc \in {"p_dlq", "p_dlqack", "p_ret"}
                 => loop[l].retryCount = maxRetries
            /\ loop[l].pc = "p_ret"
                 => /\ loop[l].outcome = "dlq"
                    /\ Acked(GroupOf(l), loop[l].cur)
                    /\ ~loop[l].dlqFail => DeadLettered(loop[l].cur)
  /\ \A g \in Groups : \A id \in 1..lastDelivered[g] :
       (Undeliverable(id) /\ Acked(g, id) /\ faults = 0) => DeadLettered(id)

\* An entry with the payload the validator rejects and an entry without a
\* 'data' field were both dead-lettered and acknowledged, and the handler
\* was never called.
C25_Witness ==
  /\ Len(stream) = 2
  /\ stream[1][2] = "null" /\ stream[2][1] = "payload"
  /\ Len(dlq) = 2
  /\ dlq[1].originalMessageId = "1-0" /\ dlq[1].error[1] = "Invalid message payload"
  /\ dlq[2].originalMessageId = "2-0" /\ dlq[2].error[1] = "missing data field"
  /\ Acked("gA", 1) /\ Acked("gA", 2)
  /\ invoked = {}

C26_State ==
  \A k \in ledger :
    \E g \in Groups : \E id \in 1..Len(stream) :
      /\ LedgerKeyOf(id) = k
      /\ Acked(g, id)
      /\ \E e \in invoked : e[1] = g /\ e[2] = id
      /\ <<g, k>> \in marked

C26_Step ==
  \A k \in ledger' \ ledger :
    \E l \in Loops :
      /\ loop[l].pc = "p_mark" /\ loop'[l].pc = "p_ret"
      /\ loop'[l].outcome = "done"
      /\ k = LedgerKeyOf(loop[l].cur)
      /\ loop[l].calls > loop[l].hfails
      /\ Acked(GroupOf(l), loop[l].cur)
      /\ ~DeadLettered(loop[l].cur) \/ escaped # {}

\* C26: the ledger invariant. A record is in the ledger under a key only if
\* the handler was called for an entry with that key and that entry is
\* acknowledged; a record is written only by a processing whose last
\* handler call returned and whose entry is already acknowledged, never by
\* one that failed or dead-lettered the entry.
C26_LedgerInvariant == [](C26_State) /\ [][C26_Step]_vars

\* The handler failed once for entry 1, succeeded on the retry, the entry
\* was acknowledged and its record written under the key of its
\* idempotencyKey field.
C26_Witness ==
  /\ ledger = {<<"idempotency", StreamName, "k1">>}
  /\ loop["L1"].pc = "p_ret" /\ loop["L1"].cur = 1
  /\ loop["L1"].hfails = 1 /\ loop["L1"].calls = 2
  /\ loop["L1"].outcome = "done"
  /\ Acked("gA", 1)
  /\ dlq = <<>>

\* Loops l and o run for the same (stream, group, consumer) triple of the
\* same service instance.
SameTriple(l, o) ==
  /\ l # o
  /\ InstOf(l) = InstOf(o) /\ GroupOf(l) = GroupOf(o)
  /\ loop[l].pc # "none" /\ loop[o].pc # "none"
  /\ loop[l].name = loop[o].name

C27_Step ==
  \A l, o \in Loops :
    \* the second subscribe of a triple starts a loop of its own and leaves
    \* the first loop as it is
    /\ (l # o /\ Subscribed(l) /\ loop[o].pc # "none"
          /\ InstOf(l) = InstOf(o) /\ GroupOf(l) = GroupOf(o)
          /\ loop'[l].name = loop[o].name)
         => /\ loop'[o] = loop[o]
            /\ ConsumerKey(GroupOf(l), loop'[l].name) \in consumers'[InstOf(l)]
    \* the loops of a triple take their steps one at a time, each on its own
    /\ (SameTriple(l, o) /\ loop'[l] # loop[l] /\ up'[InstOf(l)])
         => loop'[o] = loop[o]
    \* neither starts a cycle once the key is gone
    /\ (SameTriple(l, o) /\ loop[l].pc = "check" /\ loop'[l].pc = "pending")
         => ConsumerKey(GroupOf(l), loop[l].name) \in consumers[InstOf(l)]

\* C27: subscribing the same triple twice starts two Delivery Loops that run
\* side by side, each with its own position; both read the one registry key
\* of the triple, so after a single unsubscribe neither starts a new cycle
\* and both stop (unless the process ends first).
C27_DuplicateSubscription ==
  /\ [][C27_Step]_vars
  /\ (SameTriple("L1", "L2") /\ ~Registered("L1"))
       ~> (  (loop["L1"].pc = "stopped" /\ loop["L2"].pc = "stopped")
          \/ ~up[InstOf("L1")])

\* Two loops of the triple (tasks:created, gA, c1) run at the same time: one
\* is with the handler on entry 1, the other at its blocking read.
C27_Witness ==
  /\ SameTriple("L1", "L2")
  /\ Registered("L1")
  /\ loop["L1"].pc = "p_handler" /\ loop["L1"].cur = 1
  /\ loop["L2"].pc = "read"

\* C28: in the processing of one entry, a handler call that returned is the
\* last one, and the processing does not go on to the dead letter queue:
\* at most one handler call of a processing has returned, and none has
\* when the processing is in its dead-letter stage.
C28_NoWorkAfterHandlerSuccess ==
  \A l \in Loops :
    loop[l].cur # 0
      => /\ loop[l].calls - loop[l].hfails <= 1
         /\ loop[l].pc \in {"p_dlq", "p_dlqack"} => loop[l].calls = loop[l].hfails

\* C29: the dead letter stream holds at most one entry per consumer group
\* and original entry.
C29_DeadLetteredOnce ==
  \A g \in Groups : \A id \in 1..Len(stream) :
    Cardinality({j \in 1..Len(dlq) :
                   dlq[j].originalMessageId = IdStr[id] /\ dlq[j].group = g}) <= 1

\* C30: a loop whose triple was unsubscribed stops, also when the triple is
\* subscribed again before the loop is back at its while condition: a
\* running loop that has seen its registry key removed eventually stops
\* (unless the process ends), so that only the loop of the later subscribe
\* goes on.
C30_UnsubscribedLoopStops ==
  \A l \in Loops :
    (Running(l) /\ loop[l].pc # "stopped" /\ ~Registered(l))
      ~> (loop[l].pc = "stopped" \/ ~up[InstOf(l)])

====
